---- MODULE Spec2Model ----
(***************************************************************************)
(* Model of the sleep_narrator script pipeline.                            *)
(*                                                                         *)
(*   SpecGen     logic/generation.py  generate_single_section_script      *)
(*   SpecStitch  logic/stitching.py   stitch_and_smooth_script            *)
(*   SpecAdapter api/gemini_client.py call_gemini_api                     *)
(*   SpecMain    main.py              main, phases 2 and 3                *)
(*   SpecBudget  logic/generation.py  the output-token ceiling            *)
(*                                                                         *)
(* SpecGen and SpecStitch see the adapter from its callers: one call is    *)
(* one step whose result is any (content, finish_reason) pair the adapter  *)
(* can return for a text request.  SpecAdapter models the adapter itself.  *)
(*                                                                         *)
(* Durations.  estimate_script_length_minutes returns word_count / 140.    *)
(* The model keeps every duration as an exact integer number of ticks,     *)
(* one tick being 1/(140 * 100) minute, so that one word is 100 ticks and  *)
(* 0.01 minute is 140 ticks.  The settings that are fractions of a minute  *)
(* or of one are written in hundredths (1.5 -> 150, 0.30 -> 30).  The      *)
(* code computes in binary floating point; the model computes exactly,     *)
(* and the two can differ only where two durations are exactly equal.      *)
(***************************************************************************)
EXTENDS Integers, Sequences, FiniteSets, TLC

----------------------------------------------------------------------------
(* config/settings.py *)

WORDS_PER_MINUTE_NARRATION == 140
\* 0.30, in hundredths
TOKEN_BUFFER_PERCENTAGE == 30
\* 1.5 minutes, in hundredths of a minute
SCRIPT_LENGTH_ACCEPTABLE_VARIANCE_MINUTES == 150
MAX_ITERATIVE_EXPANSION_ATTEMPTS == 6
\* 1.0 minute, in hundredths of a minute
MIN_SECTION_TIME_FOR_EXPANSION_PROMPT == 100

\* The literals of generation.py, in hundredths: 0.2 minutes (line 188) and
\* the factor 0.9 (line 197).
MEANINGFUL_EXPANSION_MINUTES == 20
CLOSE_ENOUGH_FRACTION == 90

\* ticks of one estimated word, and of one hundredth of a minute
TicksPerWord == 10 * 10
TicksPerHundredth == WORDS_PER_MINUTE_NARRATION
\* ticks of a whole number of minutes
MinutesToTicks(m) == m * 100 * TicksPerHundredth

----------------------------------------------------------------------------
(* Bounds of the section-generation model *)

\* Section targets explored, in minutes.  8 is the least target for which
\* 90% of the target lies more than 0.75 minutes under it.
Targets == {1, 2, 8}
\* Word counts of the section title explored.
TitleWordCounts == {7}
\* The service answers with texts whose word count is a multiple of WordGrid
\* (7 words are 0.05 minutes, which divides every threshold of the loop) ...
WordGrid == 7
\* ... up to MaxOverPercent percent over the words of the target.
MaxOverPercent == 20

MaxResponseWords(t) ==
    (t * WORDS_PER_MINUTE_NARRATION * (100 + MaxOverPercent)) \div 100
ResponseWordCounts(t) ==
    {n \in 0..MaxResponseWords(t) : n % WordGrid = 0}

----------------------------------------------------------------------------
(***************************************************************************)
(* Text values as generate_single_section_script sees them: only the      *)
(* truth value, the word count, the title prefix and the identity of a     *)
(* text matter to it.                                                      *)
(*   call          the adapter call whose response the text holds          *)
(*                 (0 = initial, k = k-th expansion)                       *)
(*   body_words    word count of that response                             *)
(*   starts_title  the response starts with the section title              *)
(*   prepended     the function has put the title in front of it           *)
(*   words         word count of the whole text                            *)
(***************************************************************************)

NoneValue == [kind |-> "None", call |-> 0, body_words |-> 0,
              starts_title |-> FALSE, prepended |-> FALSE, words |-> 0]
EmptyString == [kind |-> "empty", call |-> 0, body_words |-> 0,
                starts_title |-> FALSE, prepended |-> FALSE, words |-> 0]
Text(n, k, st) == [kind |-> "text", call |-> k, body_words |-> n,
                   starts_title |-> st, prepended |-> FALSE, words |-> n]

\* Python truth value of a str | None
Truthy(v) == v.kind = "text"

\* f"{section_title}\n\n{text}": the blank line separates the title's words
\* from the text's.
PrependTitle(v, tw) == [v EXCEPT !.words = tw + v.words, !.prepended = TRUE]

\* utils/estimation_utils.py: word_count / WORDS_PER_MINUTE_NARRATION, in ticks
\* (a text without any word, blank or not, has length 0)
estimate_script_length_minutes(v) == v.words * TicksPerWord

----------------------------------------------------------------------------
(* What call_gemini_api can return for a text request                      *)

\* finish reasons of a response that carries text
FinishReasons == {"STOP", "MAX_TOKENS"}
\* reasons returned with no content (representatives of the adapter's
\* failure returns)
FailureReasons == {"BLOCKED_OR_EMPTY", "MAX_RETRIES_REACHED"}

\* The results of adapter call k for a section with target t and a title of
\* tw words.  A text that starts with the title holds the title's words.
AdapterTextResults(k, t, tw) ==
    {[content |-> NoneValue, finish_reason |-> r] : r \in FailureReasons}
    \cup {[content |-> EmptyString, finish_reason |-> r] : r \in FinishReasons}
    \cup {[content |-> Text(n, k, FALSE), finish_reason |-> r] :
              n \in ResponseWordCounts(t), r \in FinishReasons}
    \cup {[content |-> Text(n, k, TRUE), finish_reason |-> r] :
              n \in {m \in ResponseWordCounts(t) : m >= tw},
              r \in FinishReasons}

----------------------------------------------------------------------------
(* State of one call of generate_single_section_script                     *)
(* (pc = "idle" when the model runs the stitching stage only)              *)

VARIABLES
    pc,                       \* "start", "loop" (at the while test), "done"
    section_target_minutes,   \* argument
    title_words,              \* word count of the argument section_title
    script_text,              \* local; the return value once pc = "done"
    finish_reason,            \* local, of the initial call
    current_length_minutes,   \* local, in ticks
    expansion_attempts,       \* local
    expansion_finish_reason,  \* local
    adapter_calls,            \* history: calls of call_gemini_api so far
    initial_kind,             \* history: kind of content of the initial call
    expansion_outcome,        \* history: how the last loop iteration went
    expansion_gain            \* history: what the last expansion call gave,
                              \* "no_text", or a text "longer" than the
                              \* section was by more than 0.2 minutes, or
                              \* "not_longer" ("none" before such a call)

genVars == <<pc, section_target_minutes, title_words, script_text,
             finish_reason, current_length_minutes, expansion_attempts,
             expansion_finish_reason, adapter_calls, initial_kind,
             expansion_outcome, expansion_gain>>

GenLocalsUnset ==
    /\ script_text = NoneValue
    /\ finish_reason = "unset"
    /\ current_length_minutes = 0
    /\ expansion_attempts = 0
    /\ expansion_finish_reason = "unset"
    /\ adapter_calls = 0
    /\ initial_kind = "unset"
    /\ expansion_outcome = "none"
    /\ expansion_gain = "none"

GenIdle ==
    /\ pc = "idle"
    /\ section_target_minutes = 1
    /\ title_words = 0
    /\ GenLocalsUnset

GenStart ==
    /\ pc = "start"
    /\ section_target_minutes \in Targets
    /\ title_words \in TitleWordCounts
    /\ GenLocalsUnset

----------------------------------------------------------------------------
(* State of one call of stitch_and_smooth_script                           *)
(* (spc = "idle" when the model runs the section stage only)               *)

VARIABLES
    spc,                        \* "start", "loop" (at the while test), "done"
    section_scripts_map,        \* argument: title -> text, on some titles
    section_order,              \* argument: list of titles
    full_concatenated_script,   \* local
    final_script_parts,         \* local
    current_script_to_process,  \* local
    smoothing_iterations,       \* local
    smoothing_finish_reason,    \* local finish_reason of the last call
    stitch_result,              \* the return value once spc = "done"
    chunks_sent,                \* history: the input chunks sent, in order
    smoothing_log               \* history: "ok" / "failed", one per call

stitchVars == <<spc, section_scripts_map, section_order,
                full_concatenated_script, final_script_parts,
                current_script_to_process, smoothing_iterations,
                smoothing_finish_reason, stitch_result, chunks_sent,
                smoothing_log>>

----------------------------------------------------------------------------
(* State of the adapter api/gemini_client.py                               *)
(* (apc = "idle" when the model runs another stage only)                   *)

VARIABLES
    apc,                           \* "ready", "loop" (at the while test),
                                   \* "returned"
    is_json,                       \* argument: generation_config asks for
                                   \* application/json
    current_retries,               \* local
    response,                      \* local: <<>> or <<the response>>
    api_result,                    \* the return value once apc = "returned"
    total_prompt_tokens_used,      \* module global
    total_candidates_tokens_used,  \* module global
    total_tokens_accumulated,      \* module global
    invocations,                   \* history: calls of call_gemini_api
    request_log,                   \* history: what the service did at each
                                   \* request of this call
    sleeps                         \* history: the delays slept in this call

apiVars == <<apc, is_json, current_retries, response, api_result,
             total_prompt_tokens_used, total_candidates_tokens_used,
             total_tokens_accumulated, invocations, request_log, sleeps>>

----------------------------------------------------------------------------
(* State of phases 1 to 4 of main.py main                                  *)
(* (mpc = "idle" when the model runs another stage only)                   *)

VARIABLES
    mpc,                            \* "research", "structuring", "feedback",
                                    \* "generating", "done", "halted",
                                    \* "raised" (an uncaught exception)
    global_research_content,        \* local
    sections_list_to_process,       \* the list found in the service's answer
    proposed_sections_list,         \* local
    feedback_round,                 \* local i of the feedback loop
    confirmed_sections,             \* local
    generated_section_scripts_map,  \* local: title -> script
    final_section_order,            \* local
    sections_done,                  \* position of the for loop
    final_script_content,           \* local
    map_writes,                     \* history: the titles whose map entry
                                    \* was written, in order
    adapter_call_log,               \* history: one entry for the adapter
                                    \* calls of each call of a stage function
    saved_files,                    \* history: the names of the files
                                    \* written, in order
    no_result_stage,                \* history: the stage that yielded no
                                    \* result ("none" while there is none)
    retool_outcome                  \* history: how the last call of
                                    \* retool_section_structure ended,
                                    \* "sections", "no_sections" (None) or
                                    \* "raised" ("none" before such a call)

mainVars == <<mpc, global_research_content, sections_list_to_process,
              proposed_sections_list, feedback_round, confirmed_sections,
              generated_section_scripts_map, final_section_order,
              sections_done, final_script_content, map_writes,
              adapter_call_log, saved_files, no_result_stage,
              retool_outcome>>

----------------------------------------------------------------------------
(* State of the token budgets of one section (logic/generation.py) and of   *)
(* one smoothing chunk (logic/stitching.py)                                *)
(* (tpc = "idle" when the model runs another stage only)                   *)

VARIABLES
    tpc,                         \* "start", "done"
    budget_target_minutes,       \* argument section_target_minutes
    dynamic_max_tokens_section,  \* local: max_output_tokens of the first call
    expansion_max_tokens,        \* local: max_output_tokens of an expansion
    chunk_len,                   \* len(prompt_text_for_smoothing)
    chunk_output_max_tokens      \* local: max_output_tokens of a smoothing
                                 \* call (0 before it is computed)

budgetVars == <<tpc, budget_target_minutes, dynamic_max_tokens_section,
                expansion_max_tokens, chunk_len, chunk_output_max_tokens>>

----------------------------------------------------------------------------
(* State of one call of propose_section_structure or                       *)
(* retool_section_structure (logic/structuring.py)                         *)
(* (xpc = "idle" when the model runs another stage only)                   *)

VARIABLES
    xpc,                    \* "call", "returned", "raised"
    structuring_function,   \* "propose", "retool" ("none" before the call)
    raw_response_json,      \* what the adapter returned
    structuring_result,     \* the return value (<<>> for None)
    saved_json_files        \* history: the files save_json_file wrote

structVars == <<xpc, structuring_function, raw_response_json,
                structuring_result, saved_json_files>>

----------------------------------------------------------------------------
(* State of the calls of estimate_script_length_minutes                    *)
(* (utils/estimation_utils.py) on one text                                 *)
(* (epc = "idle" when the model runs another stage only)                   *)

VARIABLES
    epc,                      \* "run"
    estimated_text,           \* the argument script_text
    minutes_in_generation,    \* <<the value returned to generation.py>>,
                              \* in ticks (<<>> before the call)
    minutes_in_stitching      \* <<the value returned to stitching.py>>

estVars == <<epc, estimated_text, minutes_in_generation,
             minutes_in_stitching>>

----------------------------------------------------------------------------
(* State of one call of TTSManager._split_text_to_chunks                   *)
(* (tts/tts_manager.py; kpc = "idle" when the model runs another stage)    *)

VARIABLES
    kpc,            \* "call", "returned"
    split_text,     \* argument text
    split_chunks    \* the return value once kpc = "returned"

splitVars == <<kpc, split_text, split_chunks>>

----------------------------------------------------------------------------
(* State of one call of TTSManager.convert_text_to_speech                  *)
(* (tts/tts_manager.py; vpc = "idle" when the model runs another stage)    *)

VARIABLES
    vpc,              \* "start", "first_pass", "retry", "done"
    speech_text,      \* argument text
    text_chunks,      \* local
    chunk_position,   \* chunks the first for loop has taken
    temp_files,       \* local: the temp file of a chunk is named by the
                      \* place of the chunk in text_chunks (idx + 1)
    failed_chunks,    \* local: the places of the chunks that failed
    retry_position,   \* entries of failed_chunks the retry loop has taken
    seconds_slept,    \* history: time.sleep before the retries
    files_on_disk,    \* the temp files of self._temp_files that exist
    output_segments,  \* the audio written to the output file, in order, by
                      \* the place of the chunk it was synthesized from
    speech_result     \* the return value: "path", "None" ("unset" before)

speechVars == <<vpc, speech_text, text_chunks, chunk_position, temp_files,
                failed_chunks, retry_position, seconds_slept, files_on_disk,
                output_segments, speech_result>>

vars == <<genVars, stitchVars, apiVars, mainVars, budgetVars, structVars,
          estVars, splitVars, speechVars>>

\* the return value before the call has returned
NoResult == [content |-> [type |-> "unset", value |-> <<>>],
             finish_reason |-> "unset"]

ApiIdle ==
    /\ apc = "idle"
    /\ is_json = FALSE
    /\ current_retries = 0
    /\ response = <<>>
    /\ api_result = NoResult
    /\ total_prompt_tokens_used = 0
    /\ total_candidates_tokens_used = 0
    /\ total_tokens_accumulated = 0
    /\ invocations = 0
    /\ request_log = <<>>
    /\ sleeps = <<>>

MainIdle ==
    /\ mpc = "idle"
    /\ global_research_content = <<>>
    /\ final_script_content = <<>>
    /\ adapter_call_log = <<>>
    /\ saved_files = <<>>
    /\ no_result_stage = "none"
    /\ retool_outcome = "none"
    /\ sections_list_to_process = <<>>
    /\ proposed_sections_list = <<>>
    /\ feedback_round = 0
    /\ confirmed_sections = <<>>
    /\ generated_section_scripts_map = <<>>
    /\ final_section_order = <<>>
    /\ sections_done = 0
    /\ map_writes = <<>>

SplitIdle ==
    /\ kpc = "idle"
    /\ split_text = <<>>
    /\ split_chunks = <<>>

SpeechIdle ==
    /\ vpc = "idle"
    /\ speech_text = <<>>
    /\ text_chunks = <<>>
    /\ chunk_position = 0
    /\ temp_files = <<>>
    /\ failed_chunks = <<>>
    /\ retry_position = 0
    /\ seconds_slept = 0
    /\ files_on_disk = {}
    /\ output_segments = <<>>
    /\ speech_result = "unset"

BudgetIdle ==
    /\ tpc = "idle"
    /\ budget_target_minutes = 1
    /\ dynamic_max_tokens_section = 0
    /\ expansion_max_tokens = 0
    /\ chunk_len = 1
    /\ chunk_output_max_tokens = 0

\* the adapter's return value None
NoneResponse == [type |-> "none", items |-> <<>>, entries |-> <<>>]

StructIdle ==
    /\ xpc = "idle"
    /\ structuring_function = "none"
    /\ raw_response_json = NoneResponse
    /\ structuring_result = <<>>
    /\ saved_json_files = <<>>

EstimateIdle ==
    /\ epc = "idle"
    /\ estimated_text = <<>>
    /\ minutes_in_generation = <<>>
    /\ minutes_in_stitching = <<>>


\* the value None of the result str | None
NoScript == <<"None">>

StitchLocalsUnset ==
    /\ full_concatenated_script = <<>>
    /\ final_script_parts = <<>>
    /\ current_script_to_process = <<>>
    /\ smoothing_iterations = 0
    /\ smoothing_finish_reason = "unset"
    /\ stitch_result = NoScript
    /\ chunks_sent = <<>>
    /\ smoothing_log = <<>>

StitchIdle ==
    /\ spc = "idle"
    /\ section_scripts_map = <<>>
    /\ section_order = <<>>
    /\ StitchLocalsUnset

InitGen ==
    /\ GenStart
    /\ StitchIdle /\ ApiIdle /\ MainIdle /\ BudgetIdle /\ StructIdle
    /\ EstimateIdle /\ SplitIdle /\ SpeechIdle

\* generation.py:103-104  the title goes in front of a non-empty result
InitialScriptTextAlwaysTitled(content, tw) ==
    [PrependTitle(content, tw) EXCEPT !.kind = "text"]
InitialScriptText(content, tw) ==
    IF Truthy(content) THEN PrependTitle(content, tw) ELSE content

\* generation.py:107  the expansion loop is entered
ExpansionAllowedIfText(text, fr) == Truthy(text)
ExpansionAllowed(text, fr) == Truthy(text) /\ fr # "MAX_TOKENS"

\* generation.py:100-111 (and 214-219 when the loop is not entered)
InitialGeneration ==
    /\ pc = "start"
    /\ \E res \in AdapterTextResults(0, section_target_minutes, title_words) :
        LET text == InitialScriptText(res.content, title_words)
        IN  /\ adapter_calls' = adapter_calls + 1
            /\ initial_kind' = res.content.kind
            /\ script_text' = text
            /\ finish_reason' = res.finish_reason
            /\ IF ExpansionAllowed(text, res.finish_reason)
               THEN /\ current_length_minutes' =
                           estimate_script_length_minutes(text)
                    /\ pc' = "loop"
               ELSE /\ current_length_minutes' = current_length_minutes
                    /\ pc' = "done"
    /\ UNCHANGED <<section_target_minutes, title_words, expansion_attempts,
                   expansion_finish_reason, expansion_outcome,
                   expansion_gain>>
    /\ UNCHANGED <<stitchVars, apiVars, mainVars, budgetVars,
                   structVars, estVars, splitVars, speechVars>>

\* generation.py:114-118  the while condition
LoopGuardAnyShortfall(t, cur, attempts) ==
    /\ MinutesToTicks(t) - cur > 0
    /\ cur * 300 < MinutesToTicks(t) * (300 + TOKEN_BUFFER_PERCENTAGE)
    /\ attempts < MAX_ITERATIVE_EXPANSION_ATTEMPTS
LoopGuardStopsNearTarget(t, cur, attempts) ==
    /\ 2 * (MinutesToTicks(t) - cur) >
           SCRIPT_LENGTH_ACCEPTABLE_VARIANCE_MINUTES * TicksPerHundredth
    /\ cur * 300 < MinutesToTicks(t) * (300 - TOKEN_BUFFER_PERCENTAGE)
    /\ attempts < MAX_ITERATIVE_EXPANSION_ATTEMPTS
LoopGuardNoCap(t, cur, attempts) ==
    /\ 2 * (MinutesToTicks(t) - cur) >
           SCRIPT_LENGTH_ACCEPTABLE_VARIANCE_MINUTES * TicksPerHundredth
    /\ cur * 300 < MinutesToTicks(t) * (300 + TOKEN_BUFFER_PERCENTAGE)
LoopGuardWholeVariance(t, cur, attempts) ==
    /\ MinutesToTicks(t) - cur >
           SCRIPT_LENGTH_ACCEPTABLE_VARIANCE_MINUTES * TicksPerHundredth
    /\ cur * 300 < MinutesToTicks(t) * (300 + TOKEN_BUFFER_PERCENTAGE)
    /\ attempts < MAX_ITERATIVE_EXPANSION_ATTEMPTS
LoopGuard(t, cur, attempts) ==
    /\ 2 * (MinutesToTicks(t) - cur) >
           SCRIPT_LENGTH_ACCEPTABLE_VARIANCE_MINUTES * TicksPerHundredth
    /\ cur * 300 < MinutesToTicks(t) * (300 + TOKEN_BUFFER_PERCENTAGE)
    /\ attempts < MAX_ITERATIVE_EXPANSION_ATTEMPTS

\* generation.py:110
target_word_count_for_section(t) == t * WORDS_PER_MINUTE_NARRATION
\* generation.py:120-121
additional_words_needed(t, cur) ==
    LET current_word_count == cur \div TicksPerWord
        d == target_word_count_for_section(t) - current_word_count
    IN  IF d > 0 THEN d ELSE 0

\* generation.py:126  "remaining words too small", attempts already counted
TooSmallToExpandWholeMinute(t, cur, attempts) ==
    /\ 100 * additional_words_needed(t, cur) <
           WORDS_PER_MINUTE_NARRATION * MIN_SECTION_TIME_FOR_EXPANSION_PROMPT
    /\ attempts > 1
TooSmallToExpand(t, cur, attempts) ==
    /\ 2 * 100 * additional_words_needed(t, cur) <
           WORDS_PER_MINUTE_NARRATION * MIN_SECTION_TIME_FOR_EXPANSION_PROMPT
    /\ attempts > 1

\* generation.py:183-184
EnsureTitle(v, tw) == IF v.starts_title THEN v ELSE PrependTitle(v, tw)

\* generation.py:188  new_len_min > current_length_minutes + 0.2
MeaningfulExpansionAnyGain(new, cur) == new > cur
MeaningfulExpansionNotShorter(new, cur) == new >= cur
MeaningfulExpansion(new, cur) ==
    new > cur + MEANINGFUL_EXPANSION_MINUTES * TicksPerHundredth

\* generation.py:194-198  a truncated expansion that is close enough
TruncatedAlwaysEnough(fr, t, cur) == fr = "MAX_TOKENS"
TruncatedCloseEnough(fr, t, cur) ==
    /\ fr = "MAX_TOKENS"
    /\ cur * 100 >= MinutesToTicks(t) * CLOSE_ENOUGH_FRACTION

\* generation.py:119-212  one iteration of the while loop
ExpansionIteration ==
    /\ pc = "loop"
    /\ LoopGuard(section_target_minutes, current_length_minutes,
                 expansion_attempts)
    /\ expansion_attempts' = expansion_attempts + 1
    /\ IF TooSmallToExpand(section_target_minutes, current_length_minutes,
                           expansion_attempts + 1)
       THEN /\ expansion_outcome' = "too_small"
            /\ pc' = "done"
            /\ UNCHANGED <<script_text, current_length_minutes,
                           expansion_finish_reason, adapter_calls,
                           expansion_gain>>
       ELSE \E res \in AdapterTextResults(expansion_attempts + 1,
                            section_target_minutes, title_words) :
            LET expanded == EnsureTitle(res.content, title_words)
                new_len_min == estimate_script_length_minutes(expanded)
            IN  /\ adapter_calls' = adapter_calls + 1
                /\ expansion_finish_reason' = res.finish_reason
                /\ expansion_gain' =
                       IF ~Truthy(res.content) THEN "no_text"
                       ELSE IF new_len_min - current_length_minutes >
                                   MinutesToTicks(1) \div 5
                       THEN "longer"
                       ELSE "not_longer"
                /\ IF ~Truthy(res.content)
                   THEN /\ expansion_outcome' = "failed"
                        /\ pc' = "done"
                        /\ UNCHANGED <<script_text, current_length_minutes>>
                   ELSE IF MeaningfulExpansion(new_len_min,
                                               current_length_minutes)
                   THEN /\ script_text' = expanded
                        /\ current_length_minutes' = new_len_min
                        /\ IF TruncatedCloseEnough(res.finish_reason,
                                   section_target_minutes, new_len_min)
                           THEN /\ expansion_outcome' = "accepted_close"
                                /\ pc' = "done"
                           ELSE /\ expansion_outcome' = "accepted"
                                /\ pc' = "loop"
                   ELSE /\ expansion_outcome' = "unproductive"
                        /\ pc' = "done"
                        /\ UNCHANGED <<script_text, current_length_minutes>>
    /\ UNCHANGED <<section_target_minutes, title_words, finish_reason,
                   initial_kind>>
    /\ UNCHANGED <<stitchVars, apiVars, mainVars, budgetVars,
                   structVars, estVars, splitVars, speechVars>>

\* generation.py:114-118, 219  the while condition is false: return
LoopExit ==
    /\ pc = "loop"
    /\ ~LoopGuard(section_target_minutes, current_length_minutes,
                  expansion_attempts)
    /\ pc' = "done"
    /\ UNCHANGED <<section_target_minutes, title_words, script_text,
                   finish_reason, current_length_minutes, expansion_attempts,
                   expansion_finish_reason, adapter_calls, initial_kind,
                   expansion_outcome, expansion_gain>>
    /\ UNCHANGED <<stitchVars, apiVars, mainVars, budgetVars,
                   structVars, estVars, splitVars, speechVars>>

NextGen == InitialGeneration \/ ExpansionIteration \/ LoopExit

SpecGen == InitGen /\ [][NextGen]_vars

----------------------------------------------------------------------------
(* Strings of the stitching stage: sequences of characters                 *)

Newline == "\n"
\* the characters str.strip() removes
Whitespace == {" ", Newline}

\* str.strip()
strip(s) ==
    LET keep == {i \in 1..Len(s) : s[i] \notin Whitespace}
    IN  IF keep = {} THEN <<>>
        ELSE SubSeq(s, CHOOSE i \in keep : \A j \in keep : i <= j,
                       CHOOSE i \in keep : \A j \in keep : i >= j)

\* s[:n] and s[n:]
SliceTo(s, n) == SubSeq(s, 1, IF n < Len(s) THEN n ELSE Len(s))
SliceFrom(s, n) == SubSeq(s, n + 1, Len(s))

\* Python truth value of a str | None
StrTruthy(s) == s # <<>> /\ s # NoScript

\* "\n\n".join(parts)
RECURSIVE JoinBlankLine(_)
JoinBlankLine(parts) ==
    IF parts = <<>> THEN <<>>
    ELSE IF Len(parts) = 1 THEN parts[1]
    ELSE parts[1] \o <<Newline, Newline>> \o JoinBlankLine(Tail(parts))

----------------------------------------------------------------------------
(* Bounds of the stitching model *)

\* Stand-in for settings.SMOOTHING_PROMPT_INPUT_CHAR_LIMIT (300000), scaled
\* to the texts explored.
ChunkCharLimit == 2
\* Longest section text explored.
MaxTextLen == 3

Titles == {"t1", "t2"}
\* Title lists may repeat a title (the source does not keep titles unique):
\* up to one entry more than there are titles.
MaxOrderLen == Cardinality(Titles) + 1
\* a word character and a blank
SectionChars == {"a", " "}
SectionTexts ==
    UNION {[1..n -> SectionChars] : n \in 0..MaxTextLen}
SectionOrders ==
    UNION {[1..n -> Titles] : n \in 0..MaxOrderLen}
SectionMaps ==
    UNION {[D -> SectionTexts] : D \in SUBSET Titles}

\* Texts the smoothing call answers with: a blank one, shorter than a full
\* chunk, and one of three letters, longer.
SmoothedChunks == {<<" ">>, <<"b", "b", "b">>}

\* What call_gemini_api can return for the smoothing request.
SmoothingResults ==
    {[content |-> NoScript, finish_reason |-> r] : r \in FailureReasons}
    \cup {[content |-> <<>>, finish_reason |-> r] : r \in FinishReasons}
    \cup {[content |-> c, finish_reason |-> r] :
              c \in SmoothedChunks, r \in FinishReasons}

----------------------------------------------------------------------------
(* stitch_and_smooth_script *)

\* config/settings.py:93, scaled
SMOOTHING_PROMPT_INPUT_CHAR_LIMIT == ChunkCharLimit
\* stitching.py:48
max_smoothing_iterations == 5

StitchStart ==
    /\ spc = "start"
    /\ section_scripts_map \in SectionMaps
    /\ section_order \in SectionOrders
    /\ StitchLocalsUnset

InitStitch ==
    /\ StitchStart
    /\ GenIdle /\ ApiIdle /\ MainIdle /\ BudgetIdle /\ StructIdle
    /\ EstimateIdle /\ SplitIdle /\ SpeechIdle

\* stitching.py:22  section_scripts_map.get(section_title, "")
MapGet(m, title) == IF title \in DOMAIN m THEN m[title] ELSE <<>>

\* stitching.py:20-24  the loop over section_order
RECURSIVE AppendSections(_, _)
AppendSections(order, m) ==
    IF order = <<>> THEN <<>>
    ELSE LET script_content == MapGet(m, Head(order))
         IN  (IF StrTruthy(script_content)
              THEN strip(script_content) \o <<Newline, Newline>>
              ELSE <<>>)
             \o AppendSections(Tail(order), m)

\* stitching.py:20-26
ConcatenateSectionsUntrimmed(order, m) == AppendSections(order, m)
ConcatenateSections(order, m) == strip(AppendSections(order, m))

\* stitching.py:20-29, 46-49
Concatenate ==
    /\ spc = "start"
    /\ LET full == ConcatenateSections(section_order, section_scripts_map)
       IN  /\ full_concatenated_script' = full
           /\ IF ~StrTruthy(full)
              THEN /\ stitch_result' = NoScript
                   /\ spc' = "done"
                   /\ current_script_to_process' = <<>>
              ELSE /\ stitch_result' = stitch_result
                   /\ spc' = "loop"
                   /\ current_script_to_process' = full
    /\ final_script_parts' = <<>>
    /\ smoothing_iterations' = 0
    /\ UNCHANGED <<section_scripts_map, section_order,
                   smoothing_finish_reason, chunks_sent, smoothing_log>>
    /\ UNCHANGED <<genVars, apiVars, mainVars, budgetVars,
                   structVars, estVars, splitVars, speechVars>>

\* stitching.py:52  the while condition
SmoothingGuardNoCap(iterations, remaining) == StrTruthy(remaining)
SmoothingGuard(iterations, remaining) ==
    iterations < max_smoothing_iterations /\ StrTruthy(remaining)

\* stitching.py:99  processed_len = len(prompt_text_for_smoothing)
processed_len_of_output(prompt_text, smoothed_chunk) == Len(smoothed_chunk)
processed_len(prompt_text, smoothed_chunk) == Len(prompt_text)

\* stitching.py:106-109
RemainingAfter(remaining, n) ==
    LET rest == SliceFrom(remaining, n)
    IN  IF ~StrTruthy(strip(rest)) THEN <<>> ELSE rest

\* stitching.py:114  what is appended when a smoothing call fails
FailedRemainderAfterChunk(remaining, prompt_text) ==
    SliceFrom(remaining, Len(prompt_text))
FailedRemainderChunkOnly(remaining, prompt_text) == prompt_text
FailedRemainder(remaining, prompt_text) == remaining

\* stitching.py:53-116  one iteration of the while loop
SmoothingIteration ==
    /\ spc = "loop"
    /\ SmoothingGuard(smoothing_iterations, current_script_to_process)
    /\ smoothing_iterations' = smoothing_iterations + 1
    /\ LET prompt_text_for_smoothing ==
               SliceTo(current_script_to_process,
                       SMOOTHING_PROMPT_INPUT_CHAR_LIMIT)
       IN  \E res \in SmoothingResults :
           /\ chunks_sent' = Append(chunks_sent, prompt_text_for_smoothing)
           /\ smoothing_finish_reason' = res.finish_reason
           /\ IF StrTruthy(res.content)
              THEN /\ final_script_parts' =
                          Append(final_script_parts, res.content)
                   /\ current_script_to_process' =
                          RemainingAfter(current_script_to_process,
                              processed_len(prompt_text_for_smoothing,
                                            res.content))
                   /\ smoothing_log' = Append(smoothing_log, "ok")
              ELSE /\ final_script_parts' =
                          Append(final_script_parts,
                              FailedRemainder(current_script_to_process,
                                              prompt_text_for_smoothing))
                   /\ current_script_to_process' = <<>>
                   /\ smoothing_log' = Append(smoothing_log, "failed")
    /\ UNCHANGED <<spc, section_scripts_map, section_order,
                   full_concatenated_script, stitch_result>>
    /\ UNCHANGED <<genVars, apiVars, mainVars, budgetVars,
                   structVars, estVars, splitVars, speechVars>>

\* stitching.py:125-131  the joined parts, or the raw script if that is empty
FinalScriptNoFallback(parts, raw) == strip(JoinBlankLine(parts))
FinalScriptNoneWhenBlank(parts, raw) ==
    LET final_script == strip(JoinBlankLine(parts))
    IN  IF ~StrTruthy(final_script) THEN NoScript ELSE final_script
FinalScript(parts, raw) ==
    LET final_script == strip(JoinBlankLine(parts))
    IN  IF ~StrTruthy(final_script) THEN raw ELSE final_script

\* stitching.py:118-131  after the loop: append what is left, join, return
FinishStitching ==
    /\ spc = "loop"
    /\ ~SmoothingGuard(smoothing_iterations, current_script_to_process)
    /\ LET parts ==
               IF /\ StrTruthy(current_script_to_process)
                  /\ smoothing_iterations >= max_smoothing_iterations
               THEN Append(final_script_parts, current_script_to_process)
               ELSE final_script_parts
       IN  /\ final_script_parts' = parts
           /\ stitch_result' = FinalScript(parts, full_concatenated_script)
    /\ spc' = "done"
    /\ UNCHANGED <<section_scripts_map, section_order,
                   full_concatenated_script, current_script_to_process,
                   smoothing_iterations, smoothing_finish_reason,
                   chunks_sent, smoothing_log>>
    /\ UNCHANGED <<genVars, apiVars, mainVars, budgetVars,
                   structVars, estVars, splitVars, speechVars>>

NextStitch == Concatenate \/ SmoothingIteration \/ FinishStitching

SpecStitch == InitStitch /\ [][NextStitch]_vars

----------------------------------------------------------------------------
(***************************************************************************)
(* The adapter: api/gemini_client.py call_gemini_api                       *)
(*                                                                         *)
(* One step of the model is one pass of the while loop: one request to     *)
(* the service with everything the adapter does with its outcome.  The     *)
(* service answers a request with a response or raises an exception.       *)
(***************************************************************************)

\* the defaults of the parameters; no caller passes another value
max_retries == 3
initial_delay == 5

\* calls of the adapter explored in one behaviour
MaxAdapterCalls == 2
\* token counts the service reports for one prompt or one text
TokenCounts == {0, 3}

\* An exception raised by model.generate_content, by what the except
\* clauses look at: its class, and which of the markers str(e) holds.
\*   not_found  "404" and "is not found for API version v1beta"
\*   quota      "429", "ResourceExhausted" or "doesn't have a free quota tier"
\*   transient  "500" or "503"
ServiceExceptions ==
    {[class |-> "generation", not_found |-> FALSE, quota |-> FALSE,
      transient |-> FALSE]}
    \cup {[class |-> "other", not_found |-> nf, quota |-> q, transient |-> t] :
              nf \in BOOLEAN, q \in BOOLEAN, t \in BOOLEAN}

\* the exception of an attribute access on the response that fails outside
\* the JSON try block; its message holds none of the markers
AccessorError == [class |-> "other", not_found |-> FALSE, quota |-> FALSE,
                  transient |-> FALSE]

\* the entry of request_log for a request the service answered
Answered == [class |-> "response", not_found |-> FALSE, quota |-> FALSE,
             transient |-> FALSE]

\* response.text is a string, or reading it raises
TextRaisesAttributeError == <<"AttributeError">>
TextRaisesValueError == <<"ValueError">>
ResponseStrings == {<<>>, <<" ">>, <<"a">>, <<"[", "]">>}
ResponseTexts ==
    ResponseStrings \cup {TextRaisesAttributeError, TextRaisesValueError}

\* finish_reason of the first candidate; "NONE" when it is absent or falsy
CandidateFinishReasons == {"NONE", "STOP", "MAX_TOKENS", "SAFETY", "RECITATION"}

\* an optional count: <<>> when the attribute is absent, <<n>> otherwise
OptionalCounts == {<<>>} \cup {<<n>> : n \in TokenCounts}

\* response.usage_metadata when it is present and truthy
UsageMetadata ==
    [prompt_token_count : TokenCounts,
     candidates_token_count : OptionalCounts,
     total_token_count : OptionalCounts]

\* How the tokens of a response can be accounted for.
\*   usage_metadata  <<>> when missing or falsy, else <<the metadata>>
\*   count_prompt    model.count_tokens(prompt): <<>> when it raises, else
\*                   <<total_tokens>>
\*   count_text      model.count_tokens(response.text), likewise
\* (the counting endpoint is asked only when there is no usage metadata)
Accountings ==
    {[usage_metadata |-> <<u>>, count_prompt |-> <<0>>, count_text |-> <<0>>] :
         u \in UsageMetadata}
    \cup {[usage_metadata |-> <<>>, count_prompt |-> cp, count_text |-> ct] :
              cp \in OptionalCounts, ct \in OptionalCounts}

\* The responses of the service, with and without candidates.
Responses ==
    {[has_candidates |-> TRUE, finish_reason |-> fr, text |-> t,
      usage_metadata |-> a.usage_metadata, count_prompt |-> a.count_prompt,
      count_text |-> a.count_text] :
         fr \in CandidateFinishReasons, t \in ResponseTexts, a \in Accountings}
    \cup {[has_candidates |-> FALSE, finish_reason |-> "NONE", text |-> t,
           usage_metadata |-> a.usage_metadata,
           count_prompt |-> a.count_prompt, count_text |-> a.count_text] :
              t \in ResponseTexts, a \in Accountings}

\* the content None, a text, a parsed JSON value
NoContent == [type |-> "None", value |-> <<>>]
TextContent(s) == [type |-> "str", value |-> s]
JsonContent(v) == [type |-> "json", value |-> v]

Result(content, reason) == [content |-> content, finish_reason |-> reason]

InitAdapter ==
    /\ apc = "ready"
    /\ is_json = FALSE
    /\ current_retries = 0
    /\ response = <<>>
    /\ api_result = NoResult
    /\ total_prompt_tokens_used = 0
    /\ total_candidates_tokens_used = 0
    /\ total_tokens_accumulated = 0
    /\ invocations = 0
    /\ request_log = <<>>
    /\ sleeps = <<>>
    /\ GenIdle /\ StitchIdle /\ MainIdle /\ BudgetIdle /\ StructIdle
    /\ EstimateIdle /\ SplitIdle /\ SpeechIdle

\* call_gemini_api is entered (lines 23-47)
CallAdapter ==
    /\ apc \in {"ready", "returned"}
    /\ invocations < MaxAdapterCalls
    /\ \E json \in BOOLEAN : is_json' = json
    /\ invocations' = invocations + 1
    /\ apc' = "loop"
    /\ current_retries' = 0
    /\ response' = <<>>
    /\ api_result' = NoResult
    /\ request_log' = <<>>
    /\ sleeps' = <<>>
    /\ UNCHANGED <<total_prompt_tokens_used, total_candidates_tokens_used,
                   total_tokens_accumulated>>
    /\ UNCHANGED <<genVars, stitchVars, mainVars, budgetVars,
                   structVars, estVars, splitVars, speechVars>>

\* while current_retries < max_retries
RetryGuardNoLimit(retries) == TRUE
RetryGuard(retries) == retries < max_retries

\* delay = initial_delay * (2 ** current_retries)
BackoffDelayFixed(retries) == initial_delay
BackoffDelayLinear(retries) == initial_delay * (retries + 1)
BackoffDelay(retries) == initial_delay * (2 ^ retries)

\* The except clauses (lines 168-186): the reason returned, or "retry".
ClassifyExceptionTransientFirst(e) ==
    IF e.class = "generation" THEN "GENERATION_ERROR"
    ELSE IF e.transient THEN "retry"
    ELSE IF e.not_found THEN "API_NOT_FOUND"
    ELSE IF e.quota THEN "RATE_LIMIT_OR_QUOTA"
    ELSE "UNKNOWN_API_ERROR"
ClassifyException(e) ==
    IF e.class = "generation" THEN "GENERATION_ERROR"
    ELSE IF e.not_found THEN "API_NOT_FOUND"
    ELSE IF e.quota THEN "RATE_LIMIT_OR_QUOTA"
    ELSE IF e.transient THEN "retry"
    ELSE "UNKNOWN_API_ERROR"

\* what an except clause does with exception e
ExceptClause(e) ==
    LET reason == ClassifyException(e)
    IN  IF reason = "retry"
        THEN /\ sleeps' = Append(sleeps, BackoffDelay(current_retries))
             /\ current_retries' = current_retries + 1
             /\ apc' = "loop"
             /\ api_result' = api_result
        ELSE /\ apc' = "returned"
             /\ api_result' = Result(NoContent, reason)
             /\ UNCHANGED <<sleeps, current_retries>>

\* a request that raises
RequestRaises ==
    /\ apc = "loop"
    /\ RetryGuard(current_retries)
    /\ \E e \in ServiceExceptions :
          /\ request_log' = Append(request_log, e)
          /\ ExceptClause(e)
    /\ UNCHANGED <<is_json, response, total_prompt_tokens_used,
                   total_candidates_tokens_used, total_tokens_accumulated,
                   invocations>>
    /\ UNCHANGED <<genVars, stitchVars, mainVars, budgetVars,
                   structVars, estVars, splitVars, speechVars>>

\* Token counting (lines 66-89): the counts of this call.
NoTokens == [prompt |-> 0, candidates |-> 0, total |-> 0]

\* usage_metadata is present (lines 71-75)
ReportedTokens(usage) ==
    LET p == usage.prompt_token_count
        c == IF usage.candidates_token_count = <<>> THEN 0
             ELSE usage.candidates_token_count[1]
    IN  [prompt |-> p, candidates |-> c,
         total |-> IF usage.total_token_count = <<>> THEN p + c
                   ELSE usage.total_token_count[1]]

\* manual counting (lines 76-89); hasattr(response, 'text') is False when
\* reading the text raises AttributeError and lets any other exception
\* through to the except clause of line 84
ManuallyCountedTokensKeepPartial(r) ==
    IF r.count_prompt = <<>> THEN NoTokens
    ELSE LET p == r.count_prompt[1]
         IN  IF r.text = TextRaisesValueError
             THEN [prompt |-> p, candidates |-> 0, total |-> 0]
             ELSE IF r.text = TextRaisesAttributeError \/ r.text = <<>>
             THEN [prompt |-> p, candidates |-> 0, total |-> p]
             ELSE IF r.count_text = <<>>
             THEN [prompt |-> p, candidates |-> 0, total |-> 0]
             ELSE [prompt |-> p, candidates |-> r.count_text[1],
                   total |-> p + r.count_text[1]]
ManuallyCountedTokens(r) ==
    IF r.count_prompt = <<>> THEN NoTokens
    ELSE LET p == r.count_prompt[1]
         IN  IF r.text = TextRaisesValueError THEN NoTokens
             ELSE IF r.text = TextRaisesAttributeError \/ r.text = <<>>
             THEN [prompt |-> p, candidates |-> 0, total |-> p]
             ELSE IF r.count_text = <<>> THEN NoTokens
             ELSE [prompt |-> p, candidates |-> r.count_text[1],
                   total |-> p + r.count_text[1]]

TokensThisCall(r) ==
    IF r.usage_metadata # <<>> THEN ReportedTokens(r.usage_metadata[1])
    ELSE ManuallyCountedTokens(r)

\* total_..._used += ..._this_call (lines 92-94)
AccumulateOverwrite(accumulated, this_call) == this_call
Accumulate(accumulated, this_call) == accumulated + this_call

\* finish_reason (lines 111-119)
FinishReasonName(r) ==
    IF r.finish_reason = "NONE" THEN "UNKNOWN" ELSE r.finish_reason

\* json.loads, on the strings of the model: <<the value>>, or <<>> when it
\* raises JSONDecodeError.  "[]" is the one JSON document among them and its
\* value is the empty list.  (No string of the model starts or ends with a
\* code fence, so lines 126-127 leave the text alone.)
json_loads(s) == IF s = <<"[", "]">> THEN << <<>> >> ELSE <<>>

\* cleaned_text (lines 125-128): stripped before and after the code fences
\* are cut off
cleaned_text(s) == strip(strip(s))

\* the finish reasons that explain an empty text (line 159)
EmptyTextAllowed == {"STOP", "MAX_TOKENS", "SAFETY"}

\* What the adapter does with a response after the token counting (lines
\* 100-166): it returns a result, or an exception leaves the try block.
Returns(content, reason) ==
    [raised |-> FALSE, result |-> Result(content, reason)]
Raises == [raised |-> TRUE, result |-> NoResult]

\* the JSON request (lines 122-147)
JsonOutcomeAttributeErrorUncaught(r) ==
    IF r.text \notin ResponseStrings THEN Raises
    ELSE LET parsed == json_loads(cleaned_text(r.text))
         IN  IF parsed = <<>> THEN Returns(NoContent, "JSON_DECODE_ERROR")
             ELSE Returns(JsonContent(parsed[1]), FinishReasonName(r))
JsonOutcome(r) ==
    IF r.text = TextRaisesAttributeError
    THEN Returns(NoContent, "ATTRIBUTE_ERROR_JSON")
    ELSE IF r.text = TextRaisesValueError THEN Raises
    ELSE LET parsed == json_loads(cleaned_text(r.text))
         IN  IF parsed = <<>> THEN Returns(NoContent, "JSON_DECODE_ERROR")
             ELSE Returns(JsonContent(parsed[1]), FinishReasonName(r))

\* the text request (lines 149-166)
TextOutcomeEmptyIsFailure(r) ==
    IF r.text \notin ResponseStrings THEN Raises
    ELSE IF strip(r.text) = <<>>
    THEN Returns(NoContent, FinishReasonName(r))
    ELSE Returns(TextContent(r.text), FinishReasonName(r))
TextOutcome(r) ==
    IF r.text \notin ResponseStrings THEN Raises
    ELSE IF strip(r.text) = <<>> /\ FinishReasonName(r) \notin EmptyTextAllowed
    THEN Returns(NoContent, FinishReasonName(r))
    ELSE Returns(TextContent(r.text), FinishReasonName(r))

ResponseOutcomeCandidatesUnchecked(json, r) ==
    IF json THEN JsonOutcome(r) ELSE TextOutcome(r)
ResponseOutcome(json, r) ==
    IF ~r.has_candidates THEN Returns(NoContent, "BLOCKED_OR_EMPTY")
    ELSE IF json THEN JsonOutcome(r)
    ELSE TextOutcome(r)

\* a request the service answers
RequestAnswered ==
    /\ apc = "loop"
    /\ RetryGuard(current_retries)
    /\ \E r \in Responses :
          LET tokens == TokensThisCall(r)
              outcome == ResponseOutcome(is_json, r)
          IN  /\ response' = <<r>>
              /\ request_log' = Append(request_log, Answered)
              /\ total_prompt_tokens_used' =
                     Accumulate(total_prompt_tokens_used, tokens.prompt)
              /\ total_candidates_tokens_used' =
                     Accumulate(total_candidates_tokens_used,
                                tokens.candidates)
              /\ total_tokens_accumulated' =
                     Accumulate(total_tokens_accumulated, tokens.total)
              /\ IF outcome.raised THEN ExceptClause(AccessorError)
                 ELSE /\ apc' = "returned"
                      /\ api_result' = outcome.result
                      /\ UNCHANGED <<sleeps, current_retries>>
    /\ UNCHANGED <<is_json, invocations>>
    /\ UNCHANGED <<genVars, stitchVars, mainVars, budgetVars,
                   structVars, estVars, splitVars, speechVars>>

\* the loop ends (lines 188-191)
MaxRetriesReached ==
    /\ apc = "loop"
    /\ ~RetryGuard(current_retries)
    /\ apc' = "returned"
    /\ api_result' = Result(NoContent, "MAX_RETRIES_REACHED")
    /\ UNCHANGED <<is_json, current_retries, response,
                   total_prompt_tokens_used, total_candidates_tokens_used,
                   total_tokens_accumulated, invocations, request_log, sleeps>>
    /\ UNCHANGED <<genVars, stitchVars, mainVars, budgetVars,
                   structVars, estVars, splitVars, speechVars>>

NextAdapter ==
    CallAdapter \/ RequestRaises \/ RequestAnswered \/ MaxRetriesReached

SpecAdapter == InitAdapter /\ [][NextAdapter]_vars

----------------------------------------------------------------------------
(***************************************************************************)
(* utils/estimation_utils.py: the spoken length of a text, a string of     *)
(* characters here.                                                        *)
(***************************************************************************)

\* characters of the texts: a letter, a digit and the underscore (matched by
\* \w), a full stop (matched by neither \w nor \s), a blank and a newline
WordChars == {"a", "1", "_"}
EstimateChars == WordChars \cup {".", " ", Newline}
MaxEstimateLen == 3
EstimateTexts == UNION {[1..n -> EstimateChars] : n \in 0..MaxEstimateLen}

\* len(s.split()): the runs of characters that are not whitespace
RECURSIVE word_count_by_split(_)
word_count_by_split(s) ==
    IF s = <<>> THEN 0
    ELSE IF Head(s) \in Whitespace THEN word_count_by_split(Tail(s))
    ELSE LET rest == Tail(s)
             run == IF \E i \in 1..Len(rest) : rest[i] \in Whitespace
                    THEN CHOOSE i \in 1..Len(rest) :
                             /\ rest[i] \in Whitespace
                             /\ \A j \in 1..(i - 1) : rest[j] \notin Whitespace
                    ELSE Len(rest) + 1
         IN  1 + word_count_by_split(SliceFrom(rest, run - 1))

\* estimation_utils.py:9  len(re.findall(r'\w+', script_text)): the scan
\* skips to the next word character and takes the longest run from there
RECURSIVE word_count(_)
word_count(s) ==
    IF s = <<>> THEN 0
    ELSE IF Head(s) \notin WordChars THEN word_count(Tail(s))
    ELSE LET rest == Tail(s)
             run == IF \E i \in 1..Len(rest) : rest[i] \notin WordChars
                    THEN CHOOSE i \in 1..Len(rest) :
                             /\ rest[i] \notin WordChars
                             /\ \A j \in 1..(i - 1) : rest[j] \in WordChars
                    ELSE Len(rest) + 1
         IN  1 + word_count(SliceFrom(rest, run - 1))

\* estimation_utils.py:7-13  in ticks: word_count / 140 minutes is
\* word_count * 100 ticks
estimated_minutes(text) ==
    IF ~StrTruthy(text) \/ ~StrTruthy(strip(text)) THEN 0
    ELSE word_count(text) * TicksPerWord

InitEstimate ==
    /\ epc = "run"
    /\ estimated_text \in EstimateTexts
    /\ minutes_in_generation = <<>>
    /\ minutes_in_stitching = <<>>
    /\ GenIdle /\ StitchIdle /\ ApiIdle /\ MainIdle /\ BudgetIdle
    /\ StructIdle /\ SplitIdle /\ SpeechIdle

\* generation.py:108 and 186  the call in the section generation
EstimateInGeneration ==
    /\ epc = "run"
    /\ minutes_in_generation = <<>>
    /\ minutes_in_generation' = <<estimated_minutes(estimated_text)>>
    /\ UNCHANGED <<epc, estimated_text, minutes_in_stitching>>
    /\ UNCHANGED <<genVars, stitchVars, apiVars, mainVars, budgetVars,
                   structVars, splitVars, speechVars>>

\* stitching.py:32  the call in the stitching stage
EstimateInStitching ==
    /\ epc = "run"
    /\ minutes_in_stitching = <<>>
    /\ minutes_in_stitching' = <<estimated_minutes(estimated_text)>>
    /\ UNCHANGED <<epc, estimated_text, minutes_in_generation>>
    /\ UNCHANGED <<genVars, stitchVars, apiVars, mainVars, budgetVars,
                   structVars, splitVars, speechVars>>

NextEstimate == EstimateInGeneration \/ EstimateInStitching

SpecEstimate == InitEstimate /\ [][NextEstimate]_vars

----------------------------------------------------------------------------
(***************************************************************************)
(* logic/structuring.py: the list of sections is looked for in the         *)
(* adapter's JSON value and its entries are validated.                     *)
(***************************************************************************)

\* sections in one answer of the structuring service
MaxSections == 3

\* What the service gives as estimated_minutes, by what int() looks at:
\*   "number"  a JSON number, in tenths (0 and 2.7)
\*   "word"    a JSON string that is no numeral: int() raises ValueError
\*   "null"    JSON null: int(None) raises TypeError
NumberMinutes(tenths) == [json |-> "number", tenths |-> tenths]
WordMinutes == [json |-> "word", tenths |-> 0]
NullMinutes == [json |-> "null", tenths |-> 0]
MinutesValues == {NumberMinutes(0), NumberMinutes(27), WordMinutes,
                  NullMinutes}

\* int(section['estimated_minutes']): a number is truncated towards zero
IntCoercion(v) ==
    IF v.json = "null" THEN [raises |-> "TypeError", value |-> 0]
    ELSE IF v.json = "word" THEN [raises |-> "ValueError", value |-> 0]
    ELSE [raises |-> "none",
          value |-> IF v.tenths >= 0 THEN v.tenths \div 10
                    ELSE -((-v.tenths) \div 10)]

\* An entry of the list found in the service's answer, by what the
\* validation looks at: its shape (not a dict, a dict without one of the
\* three keys, a dict with the three keys), its title and its
\* estimated_minutes.
MalformedShapes == {"not_dict", "no_title", "no_description", "no_minutes"}
ProposedItems ==
    {[shape |-> sh, title |-> "t1", estimated_minutes |-> NullMinutes] :
        sh \in MalformedShapes}
    \cup [shape : {"complete"}, title : Titles,
          estimated_minutes : MinutesValues]

ProposedLists ==
    UNION {[1..n -> ProposedItems] : n \in 0..MaxSections}

\* A JSON value the adapter can return: None, a scalar, a list of entries,
\* or a dict given by its entries <<key, value>> in iteration order, each
\* value a list or a scalar.
ScalarResponse == [type |-> "scalar", items |-> <<>>, entries |-> <<>>]
ListResponse(list) == [type |-> "list", items |-> list, entries |-> <<>>]
DictResponse(entries) == [type |-> "dict", items |-> <<>>, entries |-> entries]
ScalarValue == [type |-> "scalar", items |-> <<>>]
ListValue(list) == [type |-> "list", items |-> list]
Entry(key, value) == [key |-> key, value |-> value]

DictKeys == {"sections", "data", "items", "outline"}
\* the values of the dicts with two keys: a scalar or a list of at most one
\* entry
ShortValues ==
    {ScalarValue} \cup {ListValue(list) : list \in {l \in ProposedLists :
                                                    Len(l) <= 1}}
RawResponses ==
    {NoneResponse, ScalarResponse, DictResponse(<<>>)}
    \cup {ListResponse(list) : list \in ProposedLists}
    \cup {DictResponse(<<Entry(k, ScalarValue)>>) : k \in DictKeys}
    \cup {DictResponse(<<Entry(k, ListValue(list))>>) :
             k \in DictKeys, list \in ProposedLists}
    \cup {DictResponse(<<Entry(keys[1], v1), Entry(keys[2], v2)>>) :
             keys \in {pair \in DictKeys \X DictKeys : pair[1] # pair[2]},
             v1 \in ShortValues, v2 \in ShortValues}

\* 'key' in raw and isinstance(raw[key], list)
HasListUnder(raw, key) ==
    \E i \in 1..Len(raw.entries) :
        raw.entries[i].key = key /\ raw.entries[i].value.type = "list"
ListUnder(raw, key) ==
    raw.entries[CHOOSE i \in 1..Len(raw.entries) :
                    raw.entries[i].key = key].value.items

\* structuring.py:39-56 and 123-141: the list the answer holds, <<list>>, or
\* <<>> when sections_list_to_process stays None
ExtractSectionsListKnownKeysOnly(raw) ==
    IF raw.type = "list" THEN <<raw.items>>
    ELSE IF raw.type # "dict" THEN <<>>
    ELSE IF HasListUnder(raw, "sections") THEN <<ListUnder(raw, "sections")>>
    ELSE IF HasListUnder(raw, "data") THEN <<ListUnder(raw, "data")>>
    ELSE IF HasListUnder(raw, "items") THEN <<ListUnder(raw, "items")>>
    ELSE <<>>
ExtractSectionsListFirstListWins(raw) ==
    IF raw.type = "list" THEN <<raw.items>>
    ELSE IF raw.type # "dict" THEN <<>>
    ELSE LET lists == {i \in 1..Len(raw.entries) :
                          raw.entries[i].value.type = "list"}
         IN  IF lists = {} THEN <<>>
             ELSE <<raw.entries[CHOOSE i \in lists :
                                   \A j \in lists : i <= j].value.items>>
ExtractSectionsList(raw) ==
    IF raw.type = "list" THEN <<raw.items>>
    ELSE IF raw.type # "dict" THEN <<>>
    ELSE IF HasListUnder(raw, "sections") THEN <<ListUnder(raw, "sections")>>
    ELSE IF HasListUnder(raw, "data") THEN <<ListUnder(raw, "data")>>
    ELSE IF HasListUnder(raw, "items") THEN <<ListUnder(raw, "items")>>
    ELSE LET lists == {i \in 1..Len(raw.entries) :
                          raw.entries[i].value.type = "list"}
         IN  IF lists = {} THEN <<>>
             ELSE <<raw.entries[CHOOSE i \in lists :
                                   \A j \in lists : i <= j].value.items>>

\* structuring.py:66 and 151: the entry is a dict with the three keys
HasRequiredKeys(item) == item.shape = "complete"

\* structuring.py:66-72 and 151-155: the entry is appended to valid_sections
KeepsSection(item) ==
    HasRequiredKeys(item) /\ IntCoercion(item.estimated_minutes).raises = "none"

\* structuring.py:69-70 and 153: the minutes of an appended entry
CleanSection(item) ==
    LET minutes == IntCoercion(item.estimated_minutes).value
    IN  [title |-> item.title,
         estimated_minutes |-> IF minutes < 1 THEN 1 ELSE minutes]

\* structuring.py:65-76 and 150-159: the except clause takes ValueError
\* only, so the TypeError of an entry leaves the loop and the function
ValidationRaises(list) ==
    \E i \in 1..Len(list) :
        /\ HasRequiredKeys(list[i])
        /\ IntCoercion(list[i].estimated_minutes).raises = "TypeError"

valid_sections(list) ==
    LET kept == SelectSeq(list, KeepsSection)
    IN  [i \in 1..Len(kept) |-> CleanSection(kept[i])]

\* the return value None of propose_section_structure
NoSections == <<>>

\* how a call of either function ends
ReturnsSections(sections) == [raised |-> FALSE, sections |-> sections]
RaisesTypeError == [raised |-> TRUE, sections |-> NoSections]

\* structuring.py:63-86 and 148-169, once the list is found
ValidationOutcome(list) ==
    IF ValidationRaises(list) THEN RaisesTypeError
    ELSE ReturnsSections(valid_sections(list))

\* structuring.py:39-86 and 123-169: None when no list or an empty list is
\* found, else the outcome of the validation
StructuringOutcome(raw) ==
    LET found == ExtractSectionsList(raw)
    IN  IF found = <<>> THEN ReturnsSections(NoSections)
        ELSE IF Len(found[1]) = 0 THEN ReturnsSections(NoSections)
        ELSE ValidationOutcome(found[1])

\* propose_section_structure on the list found in the answer
propose_section_structure(list) == valid_sections(list)

\* how either function can end, over the answers of the model
StructuringOutcomes == {StructuringOutcome(raw) : raw \in RawResponses}

InitStructure ==
    /\ xpc = "call"
    /\ structuring_function = "none"
    /\ raw_response_json \in RawResponses
    /\ structuring_result = NoSections
    /\ saved_json_files = <<>>
    /\ GenIdle /\ StitchIdle /\ ApiIdle /\ MainIdle /\ BudgetIdle
    /\ EstimateIdle /\ SplitIdle /\ SpeechIdle

\* the part the two functions share: lines 39-76 and 123-159
Structure(function) ==
    LET outcome == StructuringOutcome(raw_response_json)
    IN  /\ xpc = "call"
        /\ structuring_function' = function
        /\ xpc' = IF outcome.raised THEN "raised" ELSE "returned"
        /\ structuring_result' = outcome.sections
        /\ UNCHANGED raw_response_json
        /\ UNCHANGED <<genVars, stitchVars, apiVars, mainVars, budgetVars,
                       estVars, splitVars, speechVars>>

\* structuring.py:9-86  a valid proposal is saved before it is returned
ProposeSectionStructure ==
    /\ Structure("propose")
    /\ saved_json_files' =
           IF xpc' = "returned" /\ structuring_result' # NoSections
           THEN Append(saved_json_files, "section_proposal_initial.json")
           ELSE saved_json_files

\* structuring.py:92-169  nothing is saved
RetoolSectionStructure ==
    /\ Structure("retool")
    /\ UNCHANGED saved_json_files

NextStructure == ProposeSectionStructure \/ RetoolSectionStructure

SpecStructure == InitStructure /\ [][NextStructure]_vars

----------------------------------------------------------------------------
(***************************************************************************)
(* Phases 2 and 3 of main.py main: the section structure is proposed,      *)
(* validated and confirmed, then one script is generated per confirmed     *)
(* section and stored under the section's title.                           *)
(***************************************************************************)

\* texts perform_global_research gets from the adapter
ResearchTexts == {<<"r">>}
\* scripts generate_single_section_script returns; the blank one is the
\* script of a section whose title is empty and whose text is blank
GeneratedScripts == {<<"a">>, <<"b">>, <<" ">>}
\* the text the smoothing calls give when they succeed
SmoothedScript == <<"s">>

\* range(settings.MAX_ITERATIVE_EXPANSION_ATTEMPTS + 3)
FeedbackRounds == MAX_ITERATIVE_EXPANSION_ATTEMPTS + 3

\* the adapter calls of one call of a stage function
ResearchCall == [stage |-> "research", section |-> 0]
StructuringCall == [stage |-> "structuring", section |-> 0]
SectionCalls(index) == [stage |-> "section", section |-> index]
SmoothingCalls == [stage |-> "smoothing", section |-> 0]

\* main.py:224  the file name of a section's script; the titles of the model
\* hold letters and digits only, which the substitution leaves alone
SectionFilename(title) ==
    IF title = "t1" THEN "script_section_t1.txt" ELSE "script_section_t2.txt"

InitMain ==
    /\ mpc = "research"
    /\ global_research_content = NoScript
    /\ sections_list_to_process \in ProposedLists
    /\ proposed_sections_list = NoSections
    /\ feedback_round = 0
    /\ confirmed_sections = NoSections
    /\ generated_section_scripts_map = <<>>
    /\ final_section_order = <<>>
    /\ sections_done = 0
    /\ final_script_content = NoScript
    /\ map_writes = <<>>
    /\ adapter_call_log = <<>>
    /\ saved_files = <<>>
    /\ no_result_stage = "none"
    /\ retool_outcome = "none"
    /\ GenIdle /\ StitchIdle /\ ApiIdle /\ BudgetIdle /\ StructIdle
    /\ EstimateIdle /\ SplitIdle /\ SpeechIdle

\* main.py:131, 145, 212, 238  "if not <result>": the pipeline halts
NoResultNeverHalts(result) == FALSE
NoResultHalts(result) == ~StrTruthy(result)

\* main.py:125-135 with research.py:33-44: one adapter call; the text is
\* saved and returned, or None is returned and the pipeline halts
PerformGlobalResearch ==
    /\ mpc = "research"
    /\ UNCHANGED retool_outcome
    /\ \E research_text \in ResearchTexts \cup {NoScript, <<>>} :
          /\ adapter_call_log' = Append(adapter_call_log, ResearchCall)
          /\ global_research_content' =
                 IF StrTruthy(research_text) THEN research_text ELSE NoScript
          /\ saved_files' =
                 IF StrTruthy(research_text)
                 THEN Append(saved_files, "research_results.txt")
                 ELSE saved_files
          /\ no_result_stage' =
                 IF StrTruthy(research_text) THEN no_result_stage
                 ELSE "research"
          /\ mpc' = IF NoResultHalts(global_research_content')
                    THEN "halted" ELSE "structuring"
    /\ UNCHANGED <<sections_list_to_process, proposed_sections_list,
                   feedback_round, confirmed_sections,
                   generated_section_scripts_map, final_section_order,
                   sections_done, final_script_content, map_writes>>
    /\ UNCHANGED <<genVars, stitchVars, apiVars, budgetVars,
                   structVars, estVars, splitVars, speechVars>>

\* main.py lines 139-149: the initial proposal (the list found in the answer
\* is a local of propose_section_structure and is gone when it returns); a
\* valid proposal is saved by structuring.py:81
ProposeSections ==
    /\ mpc = "structuring"
    /\ UNCHANGED retool_outcome
    /\ adapter_call_log' = Append(adapter_call_log, StructuringCall)
    /\ IF ValidationRaises(sections_list_to_process)
       THEN /\ mpc' = "raised"
            /\ UNCHANGED <<proposed_sections_list, saved_files,
                           no_result_stage>>
       ELSE /\ proposed_sections_list' =
                   propose_section_structure(sections_list_to_process)
            /\ saved_files' =
                   IF proposed_sections_list' # NoSections
                   THEN Append(saved_files, "section_proposal_initial.json")
                   ELSE saved_files
            /\ no_result_stage' =
                   IF proposed_sections_list' = NoSections THEN "proposal"
                   ELSE no_result_stage
            /\ mpc' = IF proposed_sections_list' = NoSections THEN "halted"
                      ELSE "feedback"
    /\ sections_list_to_process' = <<>>
    /\ UNCHANGED <<global_research_content, feedback_round,
                   confirmed_sections, generated_section_scripts_map,
                   final_section_order, sections_done, final_script_content,
                   map_writes>>
    /\ UNCHANGED <<genVars, stitchVars, apiVars, budgetVars,
                   structVars, estVars, splitVars, speechVars>>

\* main.py lines 197-198, once the sections are confirmed
StartGeneration(sections) ==
    /\ confirmed_sections' = sections
    /\ generated_section_scripts_map' = <<>>
    /\ final_section_order' = [i \in 1..Len(sections) |-> sections[i].title]
    /\ mpc' = "generating"

\* one pass of the feedback loop in which the user confirms (lines 158-164)
UserConfirms ==
    /\ mpc = "feedback"
    /\ UNCHANGED retool_outcome
    /\ feedback_round < FeedbackRounds
    /\ StartGeneration(proposed_sections_list)
    /\ saved_files' = Append(saved_files, "confirmed_sections.json")
    /\ UNCHANGED <<global_research_content, sections_list_to_process,
                   proposed_sections_list, feedback_round, sections_done,
                   final_script_content, map_writes, adapter_call_log,
                   no_result_stage>>
    /\ UNCHANGED <<genVars, stitchVars, apiVars, budgetVars,
                   structVars, estVars, splitVars, speechVars>>

\* main.py:176-180  the retooled list replaces the proposal unless it is None
RetooledProposalAlways(previous, retooled_list) == retooled_list
RetooledProposal(previous, retooled_list) ==
    IF retooled_list # NoSections THEN retooled_list ELSE previous

\* one pass in which the user gives feedback and a retool attempt remains
\* (lines 166-180)
RetoolSections ==
    /\ mpc = "feedback"
    /\ feedback_round < MAX_ITERATIVE_EXPANSION_ATTEMPTS + 2
    /\ adapter_call_log' = Append(adapter_call_log, StructuringCall)
    /\ \E retooled \in StructuringOutcomes :
          IF retooled.raised
          THEN /\ mpc' = "raised"
               /\ retool_outcome' = "raised"
               /\ UNCHANGED proposed_sections_list
          ELSE /\ mpc' = mpc
               /\ retool_outcome' =
                      IF retooled.sections # NoSections THEN "sections"
                      ELSE "no_sections"
               /\ proposed_sections_list' =
                      RetooledProposal(proposed_sections_list,
                                       retooled.sections)
    /\ feedback_round' = feedback_round + 1
    /\ UNCHANGED <<global_research_content, sections_list_to_process,
                   confirmed_sections, generated_section_scripts_map,
                   final_section_order, sections_done, final_script_content,
                   map_writes, saved_files, no_result_stage>>
    /\ UNCHANGED <<genVars, stitchVars, apiVars, budgetVars,
                   structVars, estVars, splitVars, speechVars>>

\* the last pass when the user gives feedback again (lines 182-188)
RetoolAttemptsLapsed ==
    /\ mpc = "feedback"
    /\ UNCHANGED retool_outcome
    /\ feedback_round = MAX_ITERATIVE_EXPANSION_ATTEMPTS + 2
    /\ StartGeneration(proposed_sections_list)
    /\ saved_files' = Append(saved_files, "confirmed_sections_lapsed.json")
    /\ UNCHANGED <<global_research_content, sections_list_to_process,
                   proposed_sections_list, feedback_round, sections_done,
                   final_script_content, map_writes, adapter_call_log,
                   no_result_stage>>
    /\ UNCHANGED <<genVars, stitchVars, apiVars, budgetVars,
                   structVars, estVars, splitVars, speechVars>>

\* generated_section_scripts_map[title] = section_script
MapPut(m, title, script) ==
    [t \in DOMAIN m \cup {title} |-> IF t = title THEN script ELSE m[t]]

\* main.py:200  the for loop takes the confirmed sections in list order
NextSectionLastFirst(sections, done) == Len(sections) - done
NextSection(sections, done) == done + 1

\* one pass of the for loop over the confirmed sections (lines 200-225):
\* generate_single_section_script makes its adapter calls (the first call
\* and its expansions); no script halts the pipeline, a script is stored
\* and saved
GenerateSection ==
    /\ mpc = "generating"
    /\ UNCHANGED retool_outcome
    /\ sections_done < Len(confirmed_sections)
    /\ LET index == NextSection(confirmed_sections, sections_done)
           title == confirmed_sections[index].title
       IN  /\ adapter_call_log' = Append(adapter_call_log, SectionCalls(index))
           /\ \E section_script \in GeneratedScripts \cup {NoScript} :
              /\ no_result_stage' =
                     IF StrTruthy(section_script) THEN no_result_stage
                     ELSE "section"
              /\ IF NoResultHalts(section_script)
                 THEN /\ mpc' = "halted"
                      /\ UNCHANGED <<generated_section_scripts_map,
                                     sections_done, map_writes, saved_files>>
                 ELSE /\ generated_section_scripts_map' =
                             MapPut(generated_section_scripts_map, title,
                                    section_script)
                      /\ map_writes' = Append(map_writes, title)
                      /\ saved_files' =
                             Append(saved_files, SectionFilename(title))
                      /\ sections_done' = sections_done + 1
                      /\ mpc' = mpc
    /\ UNCHANGED <<global_research_content, sections_list_to_process,
                   proposed_sections_list, feedback_round, confirmed_sections,
                   final_section_order, final_script_content>>
    /\ UNCHANGED <<genVars, stitchVars, apiVars, budgetVars,
                   structVars, estVars, splitVars, speechVars>>

\* the loop is over (lines 227-244): stitch_and_smooth_script returns None
\* without an adapter call when the concatenated script is empty
\* (stitching.py:28-29); otherwise it makes its smoothing calls and returns
\* the smoothed script or, when all of it is blank, the concatenated script
\* (stitching.py:125-131), which is saved
StitchAndSave ==
    /\ mpc = "generating"
    /\ UNCHANGED retool_outcome
    /\ sections_done = Len(confirmed_sections)
    /\ LET full == ConcatenateSections(final_section_order,
                                       generated_section_scripts_map)
       IN  IF ~StrTruthy(full)
           THEN /\ final_script_content' = NoScript
                /\ no_result_stage' = "stitching"
                /\ mpc' = "halted"
                /\ UNCHANGED <<adapter_call_log, saved_files>>
           ELSE /\ final_script_content' \in {SmoothedScript, full}
                /\ adapter_call_log' = Append(adapter_call_log, SmoothingCalls)
                /\ saved_files' = Append(saved_files, "final_video_script.txt")
                /\ mpc' = "done"
                /\ UNCHANGED no_result_stage
    /\ UNCHANGED <<global_research_content, sections_list_to_process,
                   proposed_sections_list, feedback_round, confirmed_sections,
                   generated_section_scripts_map, final_section_order,
                   sections_done, map_writes>>
    /\ UNCHANGED <<genVars, stitchVars, apiVars, budgetVars,
                   structVars, estVars, splitVars, speechVars>>

NextMain ==
    \/ PerformGlobalResearch
    \/ ProposeSections
    \/ UserConfirms
    \/ RetoolSections
    \/ RetoolAttemptsLapsed
    \/ GenerateSection
    \/ StitchAndSave

SpecMain == InitMain /\ [][NextMain]_vars

----------------------------------------------------------------------------
(***************************************************************************)
(* The output-token ceiling of the first call for a section                *)
(* (logic/generation.py lines 29-43).  The code computes the product in    *)
(* binary floating point and truncates it with int(); for the targets      *)
(* 1..199 the result equals the exact product rounded down.                *)
(***************************************************************************)

\* section targets explored: 1..MaxTargetMinutes minutes
MaxTargetMinutes == 64

USE_DYNAMIC_MAX_TOKENS_FOR_SCRIPT_SECTIONS == TRUE
TESTING_SCRIPT_SECTION_MAX_TOKENS == 1024
\* 1.4, in tenths
TOKENS_PER_WORD_ESTIMATE == 14
MODEL_ABSOLUTE_MAX_OUTPUT_TOKENS == 8192

\* target * 140 * 1.4 * (1 + 0.30), in thousandths of a token
SectionTokensThousandths(target) ==
    target * WORDS_PER_MINUTE_NARRATION * TOKENS_PER_WORD_ESTIMATE
        * (100 + TOKEN_BUFFER_PERCENTAGE)

\* int(...) of line 33
estimated_section_tokens(target) ==
    SectionTokensThousandths(target) \div (10 * 100)

Min(a, b) == IF a < b THEN a ELSE b

\* max_output_tokens of section_gen_config (lines 31-49)
SectionMaxOutputTokensUncapped(target) ==
    IF USE_DYNAMIC_MAX_TOKENS_FOR_SCRIPT_SECTIONS
    THEN estimated_section_tokens(target)
    ELSE TESTING_SCRIPT_SECTION_MAX_TOKENS
SectionMaxOutputTokens(target) ==
    IF USE_DYNAMIC_MAX_TOKENS_FOR_SCRIPT_SECTIONS
    THEN Min(estimated_section_tokens(target),
             MODEL_ABSOLUTE_MAX_OUTPUT_TOKENS)
    ELSE TESTING_SCRIPT_SECTION_MAX_TOKENS

\* generation.py:134  the double product target_word_count * 1.4 * 1.45 of
\* these targets is a whole number of tokens in exact arithmetic and falls
\* just below it in double arithmetic (700 * 1.4 * 1.45 is
\* 1420.9999999999998); above 28 minutes the cap hides the rounding
DoubleProductFallsBelow(target) == target \in {5, 10, 20}

\* generation.py:134  int(target_word_count_for_section * 1.4 * (1 + 0.30 * 1.5))
expansion_estimate(target) ==
    LET thousandths ==
            target_word_count_for_section(target) * TOKENS_PER_WORD_ESTIMATE
                * (100 + ((TOKEN_BUFFER_PERCENTAGE * 3) \div 2))
        exact == thousandths \div (10 * 100)
    IN  IF DoubleProductFallsBelow(target) THEN exact - 1 ELSE exact

\* generation.py:134-135  max_output_tokens of expansion_gen_config_section
ExpansionMaxTokensUncapped(target) == expansion_estimate(target)
ExpansionMaxTokens(target) ==
    Min(expansion_estimate(target), MODEL_ABSOLUTE_MAX_OUTPUT_TOKENS)

\* stitching.py:62  int(len(prompt_text_for_smoothing) / 3.5)
chunk_input_tokens_approx(len) == (2 * len) \div 7

\* stitching.py:63  max_output_tokens of final_script_gen_config
ChunkOutputMaxTokens(len) ==
    Min(chunk_input_tokens_approx(len) + 300,
        MODEL_ABSOLUTE_MAX_OUTPUT_TOKENS)

\* Chunk lengths of the model: every remainder of the division by 3.5
\* around each multiple of ChunkLenStep characters
ChunkLenStep == 7 * 500
MaxChunkSteps == 9
ChunkLengths ==
    {k * ChunkLenStep + r : k \in 0..MaxChunkSteps, r \in 0..6} \ {0}

InitBudget ==
    /\ tpc = "start"
    /\ budget_target_minutes \in 1..MaxTargetMinutes
    /\ dynamic_max_tokens_section = 0
    /\ expansion_max_tokens = 0
    /\ chunk_len \in ChunkLengths
    /\ chunk_output_max_tokens = 0
    /\ GenIdle /\ StitchIdle /\ ApiIdle /\ MainIdle /\ StructIdle
    /\ EstimateIdle /\ SplitIdle /\ SpeechIdle

ComputeSectionConfig ==
    /\ tpc = "start"
    /\ dynamic_max_tokens_section' =
           SectionMaxOutputTokens(budget_target_minutes)
    /\ tpc' = "done"
    /\ UNCHANGED <<budget_target_minutes, expansion_max_tokens, chunk_len,
                   chunk_output_max_tokens>>
    /\ UNCHANGED <<genVars, stitchVars, apiVars, mainVars,
                   structVars, estVars, splitVars, speechVars>>

\* generation.py:134-141  the configuration of an expansion call, computed
\* inside the loop that follows the first call
ComputeExpansionConfig ==
    /\ tpc = "done"
    /\ expansion_max_tokens = 0
    /\ expansion_max_tokens' = ExpansionMaxTokens(budget_target_minutes)
    /\ UNCHANGED <<tpc, budget_target_minutes, dynamic_max_tokens_section,
                   chunk_len, chunk_output_max_tokens>>
    /\ UNCHANGED <<genVars, stitchVars, apiVars, mainVars,
                   structVars, estVars, splitVars, speechVars>>

\* stitching.py:62-70  the configuration of a smoothing call
ComputeChunkConfig ==
    /\ tpc \in {"start", "done"}
    /\ chunk_output_max_tokens = 0
    /\ chunk_output_max_tokens' = ChunkOutputMaxTokens(chunk_len)
    /\ UNCHANGED <<tpc, budget_target_minutes, dynamic_max_tokens_section,
                   expansion_max_tokens, chunk_len>>
    /\ UNCHANGED <<genVars, stitchVars, apiVars, mainVars,
                   structVars, estVars, splitVars, speechVars>>

NextBudget ==
    ComputeSectionConfig \/ ComputeExpansionConfig \/ ComputeChunkConfig

SpecBudget == InitBudget /\ [][NextBudget]_vars

----------------------------------------------------------------------------
(***************************************************************************)
(* tts/tts_manager.py: a text is cut into chunks of at most max_bytes      *)
(* bytes at sentence ends, each chunk is synthesized, the chunks that      *)
(* failed are tried once more, and the audio is written to one file.       *)
(* Texts are sequences of characters.                                      *)
(***************************************************************************)

\* Stand-in for TTS_CHUNK_SIZE_BYTES, scaled to the texts explored.
ChunkSizeBytes == 3
\* Longest text explored.
MaxSpeechLen == 7

\* tts_manager.py:19, the default of max_bytes
TTS_CHUNK_SIZE_BYTES == ChunkSizeBytes

\* a letter of one byte, a letter of two bytes in UTF-8 (such as an
\* accented letter), a sentence end and a blank
SpeechChars == {"a", "E", ".", " "}
SpeechTexts == UNION {[1..n -> SpeechChars] : n \in 0..MaxSpeechLen}

\* the characters of [.!?] among SpeechChars
SentenceEnds == {"."}

\* len(s.encode('utf-8'))
ByteLen(c) == IF c = "E" THEN 2 ELSE 1
RECURSIVE utf8_len(_)
utf8_len(s) == IF s = <<>> THEN 0 ELSE ByteLen(Head(s)) + utf8_len(Tail(s))

\* re.split(r'(?<=[.!?])\s+', text): the text is cut at every run of
\* whitespace that follows a sentence end, and the run is dropped
RECURSIVE re_split_sentences(_)
re_split_sentences(s) ==
    LET cuts == {i \in 2..Len(s) :
                    s[i] \in Whitespace /\ s[i - 1] \in SentenceEnds}
    IN  IF cuts = {} THEN <<s>>
        ELSE LET i == CHOOSE c \in cuts : \A d \in cuts : c <= d
                 after == {j \in i..Len(s) : s[j] \notin Whitespace}
                 next == IF after = {} THEN Len(s) + 1
                         ELSE CHOOSE c \in after : \A d \in after : c <= d
             IN  <<SubSeq(s, 1, i - 1)>>
                 \o re_split_sentences(SubSeq(s, next, Len(s)))

\* str.split(): the words between runs of whitespace
RECURSIVE str_split(_)
str_split(s) ==
    LET t == strip(s)
        blanks == {i \in 1..Len(t) : t[i] \in Whitespace}
    IN  IF t = <<>> THEN <<>>
        ELSE IF blanks = {} THEN <<t>>
        ELSE LET i == CHOOSE c \in blanks : \A d \in blanks : c <= d
             IN  <<SubSeq(t, 1, i - 1)>> \o str_split(SubSeq(t, i + 1, Len(t)))

\* left + ' ' + right
JoinWithBlank(left, right) == left \o <<" ">> \o right

\* chunks.append(s.strip()) under "if s:"
AppendIfAny(chunks, s) == IF s # <<>> THEN Append(chunks, strip(s)) ELSE chunks

\* tts_manager.py:139-149  a sentence longer than max_bytes is cut by words
\* and its pieces go to chunks at once
RECURSIVE forced_split(_, _, _, _)
forced_split(words, forced, chunks, max_bytes) ==
    IF words = <<>> THEN AppendIfAny(chunks, forced)
    ELSE LET word == Head(words)
         IN  IF utf8_len(JoinWithBlank(forced, word)) > max_bytes
             THEN forced_split(Tail(words), word,
                               AppendIfAny(chunks, forced), max_bytes)
             ELSE forced_split(Tail(words),
                               strip(JoinWithBlank(forced, word)),
                               chunks, max_bytes)

\* tts_manager.py:131-160  the loop over the sentences; current holds the
\* sentences not yet appended to chunks
RECURSIVE split_loop(_, _, _, _)
split_loop(sentences, current, chunks, max_bytes) ==
    IF sentences = <<>> THEN AppendIfAny(chunks, current)
    ELSE LET sentence == Head(sentences)
             rest == Tail(sentences)
         IN  IF strip(sentence) = <<>>
             THEN split_loop(rest, current, chunks, max_bytes)
             ELSE IF utf8_len(sentence) > max_bytes
             THEN split_loop(rest, current,
                             forced_split(str_split(sentence), <<>>, chunks,
                                          max_bytes),
                             max_bytes)
             ELSE IF utf8_len(JoinWithBlank(current, sentence)) > max_bytes
             THEN split_loop(rest, sentence, AppendIfAny(chunks, current),
                             max_bytes)
             ELSE split_loop(rest, strip(JoinWithBlank(current, sentence)),
                             chunks, max_bytes)

\* tts_manager.py:122-162  _split_text_to_chunks
split_text_to_chunks(text, max_bytes) ==
    split_loop(re_split_sentences(text), <<>>, <<>>, max_bytes)

InitSplit ==
    /\ kpc = "call"
    /\ split_text \in SpeechTexts
    /\ split_chunks = <<>>
    /\ GenIdle /\ StitchIdle /\ ApiIdle /\ MainIdle /\ BudgetIdle
    /\ StructIdle /\ EstimateIdle /\ SpeechIdle

\* one call of _split_text_to_chunks with the default max_bytes
SplitTextToChunks ==
    /\ kpc = "call"
    /\ kpc' = "returned"
    /\ split_chunks' = split_text_to_chunks(split_text, TTS_CHUNK_SIZE_BYTES)
    /\ UNCHANGED split_text
    /\ UNCHANGED <<genVars, stitchVars, apiVars, mainVars, budgetVars,
                   structVars, estVars, speechVars>>

NextSplit == SplitTextToChunks

SpecSplit == InitSplit /\ [][NextSplit]_vars

----------------------------------------------------------------------------
(* convert_text_to_speech *)

\* what _synthesize_speech gives for one chunk, after its own retries:
\* audio, empty audio, or an exception
SynthesisOutcomes == {"audio", "no_audio", "raises"}

\* tts_manager.py:164-186  _process_chunk returns a temp path, or None
ProcessChunkReturnsPath(outcome) == outcome = "audio"

\* tts_manager.py:221
RETRY_DELAY_SECONDS == 30

InitSpeech ==
    /\ vpc = "start"
    /\ speech_text \in SpeechTexts
    /\ text_chunks = <<>>
    /\ chunk_position = 0
    /\ temp_files = <<>>
    /\ failed_chunks = <<>>
    /\ retry_position = 0
    /\ seconds_slept = 0
    /\ files_on_disk = {}
    /\ output_segments = <<>>
    /\ speech_result = "unset"
    /\ GenIdle /\ StitchIdle /\ ApiIdle /\ MainIdle /\ BudgetIdle
    /\ StructIdle /\ EstimateIdle /\ SplitIdle

\* tts_manager.py:200-208  a text over the limit is cut into chunks
ChunkText ==
    /\ vpc = "start"
    /\ text_chunks' =
           IF utf8_len(speech_text) > TTS_CHUNK_SIZE_BYTES
           THEN split_text_to_chunks(speech_text, TTS_CHUNK_SIZE_BYTES)
           ELSE <<speech_text>>
    /\ vpc' = "first_pass"
    /\ UNCHANGED <<speech_text, chunk_position, temp_files, failed_chunks,
                   retry_position, seconds_slept, files_on_disk,
                   output_segments, speech_result>>
    /\ UNCHANGED <<genVars, stitchVars, apiVars, mainVars, budgetVars,
                   structVars, estVars, splitVars>>

\* tts_manager.py:211-216  one pass of the loop over the chunks
ProcessNextChunk ==
    /\ vpc = "first_pass"
    /\ chunk_position < Len(text_chunks)
    /\ chunk_position' = chunk_position + 1
    /\ \E outcome \in SynthesisOutcomes :
          IF ProcessChunkReturnsPath(outcome)
          THEN /\ temp_files' = Append(temp_files, chunk_position + 1)
               /\ files_on_disk' = files_on_disk \cup {chunk_position + 1}
               /\ UNCHANGED failed_chunks
          ELSE /\ failed_chunks' = Append(failed_chunks, chunk_position + 1)
               /\ UNCHANGED <<temp_files, files_on_disk>>
    /\ UNCHANGED <<vpc, speech_text, text_chunks, retry_position,
                   seconds_slept, output_segments, speech_result>>
    /\ UNCHANGED <<genVars, stitchVars, apiVars, mainVars, budgetVars,
                   structVars, estVars, splitVars>>

\* tts_manager.py:219-221  some chunk failed: sleep, then the retry loop
StartRetry ==
    /\ vpc = "first_pass"
    /\ chunk_position = Len(text_chunks)
    /\ failed_chunks # <<>>
    /\ seconds_slept' = seconds_slept + RETRY_DELAY_SECONDS
    /\ vpc' = "retry"
    /\ UNCHANGED <<speech_text, text_chunks, chunk_position, temp_files,
                   failed_chunks, retry_position, files_on_disk,
                   output_segments, speech_result>>
    /\ UNCHANGED <<genVars, stitchVars, apiVars, mainVars, budgetVars,
                   structVars, estVars, splitVars>>

\* tts_manager.py:222-225  one pass of the loop over the failed chunks: the
\* temp file of a chunk that succeeds now goes to the end of temp_files
RetryNextChunk ==
    /\ vpc = "retry"
    /\ retry_position < Len(failed_chunks)
    /\ retry_position' = retry_position + 1
    /\ \E outcome \in SynthesisOutcomes :
          IF ProcessChunkReturnsPath(outcome)
          THEN /\ temp_files' =
                      Append(temp_files, failed_chunks[retry_position + 1])
               /\ files_on_disk' =
                      files_on_disk \cup {failed_chunks[retry_position + 1]}
          ELSE UNCHANGED <<temp_files, files_on_disk>>
    /\ UNCHANGED <<vpc, speech_text, text_chunks, chunk_position,
                   failed_chunks, seconds_slept, output_segments,
                   speech_result>>
    /\ UNCHANGED <<genVars, stitchVars, apiVars, mainVars, budgetVars,
                   structVars, estVars, splitVars>>

\* tts_manager.py:227-252  no temp file: None; else the temp files are
\* written to the output file in the order of temp_files, or an exception
\* ends the writing after some of them and None is returned; the temp files
\* are removed in either case
ConcatenateAudio ==
    /\ \/ vpc = "first_pass" /\ chunk_position = Len(text_chunks)
                             /\ failed_chunks = <<>>
       \/ vpc = "retry" /\ retry_position = Len(failed_chunks)
    /\ IF temp_files = <<>>
       THEN /\ speech_result' = "None"
            /\ UNCHANGED output_segments
       ELSE \/ /\ output_segments' = temp_files
               /\ speech_result' = "path"
            \/ /\ \E written \in 0..(Len(temp_files) - 1) :
                      output_segments' = SubSeq(temp_files, 1, written)
               /\ speech_result' = "None"
    /\ files_on_disk' = {}
    /\ vpc' = "done"
    /\ UNCHANGED <<speech_text, text_chunks, chunk_position, temp_files,
                   failed_chunks, retry_position, seconds_slept>>
    /\ UNCHANGED <<genVars, stitchVars, apiVars, mainVars, budgetVars,
                   structVars, estVars, splitVars>>

NextSpeech ==
    \/ ChunkText
    \/ ProcessNextChunk
    \/ StartRetry
    \/ RetryNextChunk
    \/ ConcatenateAudio

SpecSpeech == InitSpeech /\ [][NextSpeech]_vars

----------------------------------------------------------------------------
(* Claims about generate_single_section_script (SpecGen)                   *)

\* the returned text is within 1.5 minutes of the target, either side
WithinVariance(t, len) ==
    /\ len - MinutesToTicks(t) <=
           SCRIPT_LENGTH_ACCEPTABLE_VARIANCE_MINUTES * TicksPerHundredth
    /\ MinutesToTicks(t) - len <=
           SCRIPT_LENGTH_ACCEPTABLE_VARIANCE_MINUTES * TicksPerHundredth

\* the returned text is at most 0.75 minutes (half the band) under the target
NotShortByHalfVariance(t, len) ==
    2 * (MinutesToTicks(t) - len) <=
        SCRIPT_LENGTH_ACCEPTABLE_VARIANCE_MINUTES * TicksPerHundredth

\* C1: whatever the service answers, the function makes at most
\* 1 + MAX_ITERATIVE_EXPANSION_ATTEMPTS = 7 adapter calls, the initial one
\* and at most 6 expansion calls (one per counted attempt at most), and once
\* 7 calls are made the loop test is false, so that it returns.
C1_AtMostSevenCalls ==
    /\ adapter_calls <= 1 + MAX_ITERATIVE_EXPANSION_ATTEMPTS
    /\ adapter_calls <= 7
    /\ (pc = "start") = (adapter_calls = 0)
    /\ adapter_calls <= 1 + expansion_attempts
    /\ expansion_attempts <= MAX_ITERATIVE_EXPANSION_ATTEMPTS
    /\ (pc = "loop" /\ adapter_calls = 7) =>
           ~LoopGuard(section_target_minutes, current_length_minutes,
                      expansion_attempts)
\* C1 witness: a call of the function that returned after seven adapter calls
C1_Witness == pc = "done" /\ adapter_calls = 7

C3_NoTextIffInitialFailed ==
    pc = "done" =>
        /\ ~Truthy(script_text) <=> initial_kind \in {"None", "empty"}
        /\ ~Truthy(script_text) =>
               /\ script_text.kind = initial_kind
               /\ adapter_calls = 1
        /\ expansion_outcome \in {"failed", "unproductive"} =>
               /\ Truthy(script_text)
               /\ script_text.call = expansion_attempts - 1
\* C3 witness: expansions were accepted, then one failed, and text is returned
C3_Witness ==
    /\ pc = "done"
    /\ expansion_outcome = "failed"
    /\ expansion_attempts >= 2
    /\ Truthy(script_text)

\* C4: when the initial call returns text with finish reason MAX_TOKENS the
\* function has returned after that one call, without any expansion attempt,
\* the title followed by the text of that call.
C4_TruncatedInitialNotExpanded ==
    (pc # "start" /\ initial_kind = "text" /\ finish_reason = "MAX_TOKENS") =>
        /\ pc = "done"
        /\ adapter_calls = 1
        /\ expansion_attempts = 0
        /\ script_text =
               PrependTitle(Text(script_text.body_words, 0,
                                 script_text.starts_title), title_words)
\* C4 witness: a truncated initial text was returned
C4_Witness ==
    /\ pc = "done"
    /\ initial_kind = "text"
    /\ finish_reason = "MAX_TOKENS"
    /\ script_text.body_words > 0

\* C5 as claimed: whenever the initial call returned text, the function
\* returns a text within 1.5 minutes of the target or after six attempts.
C5_Original ==
    (pc = "done" /\ initial_kind = "text") =>
        \/ WithinVariance(section_target_minutes,
                          estimate_script_length_minutes(script_text))
        \/ expansion_attempts = MAX_ITERATIVE_EXPANSION_ATTEMPTS

\* C5 amended: whenever the initial call returned text that was not cut off
\* by MAX_TOKENS, the function returns a text that is at most 0.75 minutes
\* shorter than the target (it may be longer by any amount), or six attempts
\* have been made, or the last expansion call ended the loop: it failed or
\* was empty, it did not lengthen the text by more than 0.2 minutes, or it
\* was cut off by MAX_TOKENS with at least 90% of the target reached.
C5_ConvergedOrStopped ==
    (pc = "done" /\ initial_kind = "text" /\ finish_reason # "MAX_TOKENS") =>
        \/ NotShortByHalfVariance(section_target_minutes,
                                  estimate_script_length_minutes(script_text))
        \/ expansion_attempts = MAX_ITERATIVE_EXPANSION_ATTEMPTS
        \/ expansion_outcome \in {"failed", "unproductive", "accepted_close"}
\* C5 witness: expansion brought a short text to within 0.75 minutes of the
\* target before the attempts ran out
C5_Witness ==
    /\ pc = "done"
    /\ expansion_outcome = "accepted"
    /\ expansion_attempts \in 1..(MAX_ITERATIVE_EXPANSION_ATTEMPTS - 1)
    /\ NotShortByHalfVariance(section_target_minutes,
                              estimate_script_length_minutes(script_text))

----------------------------------------------------------------------------
(* Claims about stitch_and_smooth_script (SpecStitch)                      *)

RECURSIVE Flatten(_)
Flatten(ss) == IF ss = <<>> THEN <<>> ELSE Head(ss) \o Flatten(Tail(ss))

\* the trimmed texts of the listed titles that map to a non-empty text
RECURSIVE TrimmedTexts(_, _)
TrimmedTexts(order, m) ==
    IF order = <<>> THEN <<>>
    ELSE (IF MapGet(m, Head(order)) # <<>>
          THEN <<strip(MapGet(m, Head(order)))>> ELSE <<>>)
         \o TrimmedTexts(Tail(order), m)

\* the simple join: those texts, in list order, joined by a blank line
SimpleJoin == JoinBlankLine(TrimmedTexts(section_order, section_scripts_map))

\* some listed title maps to a non-empty text / to a text that is not blank
SomeNonEmptyText ==
    \E i \in 1..Len(section_order) :
        MapGet(section_scripts_map, section_order[i]) # <<>>
SomeNonBlankText ==
    \E i \in 1..Len(section_order) :
        strip(MapGet(section_scripts_map, section_order[i])) # <<>>

\* C6: a successful smoothing call was sent the first
\* min(len, SMOOTHING_PROMPT_INPUT_CHAR_LIMIT) characters of the remaining
\* text and leaves exactly the rest of it as the remaining text, whatever the
\* output and its finish reason; so the chunks sent so far followed by the
\* remaining text are the raw concatenated script.  (The raw script is
\* trimmed, so the rest is never a whitespace-only tail that would be
\* dropped.)
C6_AdvanceByInputChunk ==
    [][smoothing_log' = Append(smoothing_log, "ok") =>
         LET chunk == chunks_sent'[Len(chunks_sent')]
         IN  /\ Len(chunk) =
                    IF Len(current_script_to_process) <
                           SMOOTHING_PROMPT_INPUT_CHAR_LIMIT
                    THEN Len(current_script_to_process)
                    ELSE SMOOTHING_PROMPT_INPUT_CHAR_LIMIT
             /\ Len(current_script_to_process') =
                    Len(current_script_to_process) - Len(chunk)
             /\ current_script_to_process =
                    chunk \o current_script_to_process'
             /\ Flatten(chunks_sent') \o current_script_to_process' =
                    full_concatenated_script]_vars
\* C6 witness: two calls succeeded, the second cut off by MAX_TOKENS, with
\* outputs shorter and longer than their input chunks, and text remains
C6_Witness ==
    /\ spc = "loop"
    /\ smoothing_log = <<"ok", "ok">>
    /\ smoothing_finish_reason = "MAX_TOKENS"
    /\ Len(final_script_parts[1]) < Len(chunks_sent[1])
    /\ Len(final_script_parts[2]) > Len(chunks_sent[2])
    /\ current_script_to_process # <<>>

C8_Original ==
    (spc = "done" /\ SomeNonEmptyText) => StrTruthy(stitch_result)

\* C8 amended: the stage returns a non-empty text whenever a listed title
\* maps to a text with at least one non-whitespace character, whatever the
\* smoothing service answers.
C8_NonEmptyOutput ==
    (spc = "done" /\ SomeNonBlankText) =>
        /\ StrTruthy(stitch_result)
        /\ strip(stitch_result) = stitch_result
\* C8 witness: every smoothing answer was blank and the raw script is returned
C8_Witness ==
    /\ spc = "done"
    /\ SomeNonBlankText
    /\ Len(smoothing_log) >= 2
    /\ \A i \in 1..Len(smoothing_log) : smoothing_log[i] = "ok"
    /\ strip(JoinBlankLine(final_script_parts)) = <<>>
    /\ stitch_result = full_concatenated_script

\* C9 as claimed: the raw concatenated script is the simple join, and an
\* empty one makes the stage return None without a smoothing call.
C9_Original ==
    spc # "start" =>
        /\ full_concatenated_script = SimpleJoin
        /\ full_concatenated_script = <<>> =>
               /\ spc = "done"
               /\ stitch_result = NoScript
               /\ chunks_sent = <<>>

\* C9 amended: the raw concatenated script is the simple join with leading
\* and trailing whitespace removed (the separators next to a leading or
\* trailing whitespace-only text go with it), and an empty one makes the
\* stage return None without a smoothing call.
C9_RawScriptIsTrimmedJoin ==
    spc # "start" =>
        /\ full_concatenated_script = strip(SimpleJoin)
        /\ full_concatenated_script = <<>> =>
               /\ spc = "done"
               /\ stitch_result = NoScript
               /\ chunks_sent = <<>>
               /\ smoothing_log = <<>>
               /\ smoothing_iterations = 0
\* C9 witness: a list of three titles, one absent from the map, the others
\* with text to trim, gave a raw script of two texts
C9_Witness ==
    /\ spc # "start"
    /\ Len(section_order) = 3
    /\ \E i \in 1..3 : section_order[i] \notin DOMAIN section_scripts_map
    /\ \E i \in 1..3 :
           LET t == MapGet(section_scripts_map, section_order[i])
           IN  strip(t) # <<>> /\ strip(t) # t
    /\ Len(TrimmedTexts(section_order, section_scripts_map)) = 2
    /\ full_concatenated_script # <<>>

\* C10: the stage makes at most max_smoothing_iterations = 5 smoothing calls
\* (after 5 the loop test is false and it returns), and exactly one when the
\* raw script, not empty, is no longer than
\* SMOOTHING_PROMPT_INPUT_CHAR_LIMIT.
C10_AtMostFiveSmoothingCalls ==
    /\ Len(smoothing_log) <= max_smoothing_iterations
    /\ Len(smoothing_log) <= 5
    /\ Len(chunks_sent) = Len(smoothing_log)
    /\ (spc = "loop" /\ Len(smoothing_log) = 5) =>
           ~SmoothingGuard(smoothing_iterations, current_script_to_process)
    /\ (/\ spc = "done"
        /\ full_concatenated_script # <<>>
        /\ Len(full_concatenated_script) <= SMOOTHING_PROMPT_INPUT_CHAR_LIMIT)
           => Len(smoothing_log) = 1
\* C10 witness: five calls succeeded and raw text was still left over
C10_Witness ==
    /\ spc = "done"
    /\ Len(smoothing_log) = 5
    /\ smoothing_log[5] = "ok"
    /\ current_script_to_process # <<>>

----------------------------------------------------------------------------
(* Claims about call_gemini_api (SpecAdapter)                              *)

\* a request whose exception the adapter takes for a transient error: its
\* message holds "500" or "503" and none of the other markers
TransientError(entry) ==
    /\ entry.class = "other"
    /\ entry.transient /\ ~entry.not_found /\ ~entry.quota

\* request_log is k transient errors followed by a response
RetriedThenAnswered(k) ==
    /\ Len(request_log) = k + 1
    /\ \A i \in 1..k : TransientError(request_log[i])
    /\ request_log[k + 1] = Answered

\* what the adapter returns for response r when no retry came before it
OutcomeOf(json, r) ==
    LET outcome == ResponseOutcome(json, r)
    IN  IF outcome.raised THEN Result(NoContent, "UNKNOWN_API_ERROR")
        ELSE outcome.result

\* C11: when the first k requests of a call (0 <= k < max_retries) raise a
\* transient error and the next one is answered, the call returns what it
\* returns for that response, never MAX_RETRIES_REACHED, and has slept
\* exactly k times, the i-th sleep (from 0) lasting initial_delay * 2^i.
C11_RetriedThenClassified ==
    \A k \in 0..(max_retries - 1) :
        RetriedThenAnswered(k) =>
            /\ apc = "returned"
            /\ response # <<>>
            /\ api_result = OutcomeOf(is_json, response[1])
            /\ api_result.finish_reason # "MAX_RETRIES_REACHED"
            /\ Len(sleeps) = k
            /\ \A i \in 0..(k - 1) : sleeps[i + 1] = initial_delay * (2 ^ i)

\* two transient errors, then a text is returned after sleeps of 5 and 10
C11_Witness ==
    /\ RetriedThenAnswered(2)
    /\ apc = "returned"
    /\ api_result.content.type = "str"
    /\ sleeps = <<5, 10>>

\* C12: one call never issues more than max_retries requests; when every
\* request of a returned call raised a transient error, the call issued
\* exactly max_retries requests and returned no content with
\* MAX_RETRIES_REACHED.
C12_AtMostMaxRetriesRequests ==
    /\ Len(request_log) <= max_retries
    /\ (/\ apc = "returned"
        /\ \A i \in 1..Len(request_log) : TransientError(request_log[i]))
       => /\ Len(request_log) = max_retries
          /\ api_result = Result(NoContent, "MAX_RETRIES_REACHED")

\* three transient errors end the call
C12_Witness ==
    /\ apc = "returned"
    /\ Len(request_log) = max_retries
    /\ \A i \in 1..Len(request_log) : TransientError(request_log[i])
    /\ api_result.finish_reason = "MAX_RETRIES_REACHED"

\* an exception of the general except clause that is not a transient error
FatalError(entry) ==
    /\ entry.class = "other"
    /\ entry.not_found \/ entry.quota \/ ~entry.transient

FatalReason(entry) ==
    IF entry.not_found THEN "API_NOT_FOUND"
    ELSE IF entry.quota THEN "RATE_LIMIT_OR_QUOTA"
    ELSE "UNKNOWN_API_ERROR"

NotJson(text) == text \in ResponseStrings /\ strip(text) # <<"[", "]">>

\* C14: a response without candidates yields no content with
\* BLOCKED_OR_EMPTY; for a JSON request a response with candidates whose
\* text does not parse yields no content with JSON_DECODE_ERROR; in both
\* cases the call returns with that request, without a sleep after it.
C14_BlockedAndDecodeErrors ==
    response # <<>> =>
        LET r == response[1]
        IN  /\ ~r.has_candidates =>
                  /\ apc = "returned"
                  /\ api_result = Result(NoContent, "BLOCKED_OR_EMPTY")
                  /\ Len(sleeps) = Len(request_log) - 1
            /\ (is_json /\ r.has_candidates /\ NotJson(r.text)) =>
                  /\ apc = "returned"
                  /\ api_result = Result(NoContent, "JSON_DECODE_ERROR")
                  /\ Len(sleeps) = Len(request_log) - 1

\* a text request is answered without candidates but with a text
C14_Witness ==
    /\ response # <<>>
    /\ ~is_json
    /\ ~response[1].has_candidates
    /\ response[1].text = <<"a">>
    /\ api_result.finish_reason = "BLOCKED_OR_EMPTY"

\* the Reason enum of the data model
Reason == {"BLOCKED_OR_EMPTY", "JSON_DECODE_ERROR", "ATTRIBUTE_ERROR",
           "API_NOT_FOUND", "RATE_LIMIT_OR_QUOTA", "UNKNOWN_API_ERROR",
           "MAX_RETRIES_REACHED", "GENERATION_ERROR"}

\* a JSON request is answered with candidates and reading the text raises
\* AttributeError
JsonAttributeError ==
    /\ response # <<>>
    /\ is_json
    /\ response[1].has_candidates
    /\ response[1].text = TextRaisesAttributeError

\* C15 as claimed: a structural mismatch of the response to a JSON request
\* yields no content with the reason ATTRIBUTE_ERROR, a member of Reason.
C15_Original ==
    JsonAttributeError =>
        /\ api_result = Result(NoContent, "ATTRIBUTE_ERROR")
        /\ api_result.finish_reason \in Reason

\* C15: when reading the text of the response to a JSON request raises
\* AttributeError, the call returns no content with the reason
\* ATTRIBUTE_ERROR_JSON, which is not a name of the Reason enum.
C15_AttributeErrorJson ==
    JsonAttributeError =>
        /\ apc = "returned"
        /\ api_result = Result(NoContent, "ATTRIBUTE_ERROR_JSON")
        /\ api_result.finish_reason \notin Reason

C15_Witness ==
    /\ JsonAttributeError
    /\ apc = "returned"
    /\ api_result.finish_reason = "ATTRIBUTE_ERROR_JSON"

\* the text is empty or whitespace-only
Blank(text) == \A i \in 1..Len(text) : text[i] \in Whitespace

\* C16: for a text request answered with candidates and a text: a blank
\* text with a finish reason other than STOP, MAX_TOKENS and SAFETY yields
\* no content with that finish reason; every other text is returned as it
\* is, with the finish reason.
C16_BlankTextIsFailureUnlessExplained ==
    (/\ response # <<>>
     /\ ~is_json
     /\ response[1].has_candidates
     /\ response[1].text \in ResponseStrings) =>
        LET r == response[1]
            reason == FinishReasonName(r)
        IN  /\ apc = "returned"
            /\ api_result =
                  IF Blank(r.text)
                     /\ reason \notin {"STOP", "MAX_TOKENS", "SAFETY"}
                  THEN Result(NoContent, reason)
                  ELSE Result(TextContent(r.text), reason)

\* a whitespace-only text is returned because the finish reason is SAFETY
C16_Witness ==
    /\ response # <<>>
    /\ ~is_json
    /\ response[1].has_candidates
    /\ response[1].text = <<" ">>
    /\ api_result = Result(TextContent(<<" ">>), "SAFETY")

\* C17: no step of any sequence of adapter calls decreases one of the
\* three token counters.
C17_CountersNeverDecrease ==
    [][/\ total_prompt_tokens_used' >= total_prompt_tokens_used
       /\ total_candidates_tokens_used' >= total_candidates_tokens_used
       /\ total_tokens_accumulated' >= total_tokens_accumulated]_vars

\* a second call ends with an exception after the first one added tokens
C17_Witness ==
    /\ invocations = 2
    /\ apc = "returned"
    /\ response = <<>>
    /\ api_result.finish_reason = "GENERATION_ERROR"
    /\ total_prompt_tokens_used > 0
    /\ total_candidates_tokens_used > 0
    /\ total_tokens_accumulated > 0

\* the response carries no usage metadata and a call of the counting
\* endpoint raises
CountingFails(r) ==
    /\ r.usage_metadata = <<>>
    /\ \/ r.count_prompt = <<>>
       \/ /\ r.text \in ResponseStrings
          /\ r.text # <<>>
          /\ r.count_text = <<>>

\* the same response, had the counting endpoint answered
CountingSucceeds(r) ==
    [r EXCEPT !.count_prompt = <<3>>, !.count_text = <<3>>]

\* C18: a request answered without usage metadata whose token counting
\* fails leaves the three counters as they are and ends the call with the
\* result it has for the same response when the counting succeeds.
C18_CountingFailureChangesNothing ==
    [][(response' # response /\ response' # <<>>
           /\ CountingFails(response'[1])) =>
          /\ total_prompt_tokens_used' = total_prompt_tokens_used
          /\ total_candidates_tokens_used' = total_candidates_tokens_used
          /\ total_tokens_accumulated' = total_tokens_accumulated
          /\ apc' = "returned"
          /\ api_result' =
                 OutcomeOf(is_json, CountingSucceeds(response'[1]))]_vars

\* the prompt is counted, the count of the text fails, the text is returned
C18_Witness ==
    /\ response # <<>>
    /\ response[1].usage_metadata = <<>>
    /\ response[1].count_prompt = <<3>>
    /\ response[1].count_text = <<>>
    /\ response[1].text = <<"a">>
    /\ api_result.content = TextContent(<<"a">>)
    /\ total_tokens_accumulated = 0

----------------------------------------------------------------------------
(* Claims about main (SpecMain)                                            *)

\* the number of times the map entry of a title was written
WritesOf(title) ==
    Cardinality({i \in 1..Len(map_writes) : map_writes[i] = title})

\* C19: during one pipeline run the map entry of a title is written at most
\* once.
C19_WriteOncePerTitle == \A title \in Titles : WritesOf(title) <= 1

----------------------------------------------------------------------------
(* Claims about the token ceiling (SpecBudget)                             *)

\* C20 as claimed: the ceiling is min(ceil(target * 140 * 1.4 * 1.30), 8192),
\* the product rounded up.
C20_Original ==
    tpc = "done" =>
        LET c == dynamic_max_tokens_section
            x == budget_target_minutes * 140 * 14 * 130
        IN  IF x > (8192 - 1) * 1000 THEN c = 8192
            ELSE (c - 1) * 1000 < x /\ x <= c * 1000

\* C20: the ceiling is min(floor(target * 140 * 1.4 * 1.30), 8192), the
\* product rounded down.
C20_CeilingIsFloorCapped ==
    tpc = "done" =>
        LET c == dynamic_max_tokens_section
            x == budget_target_minutes * 140 * 14 * 130
        IN  IF x >= 8192 * 1000 THEN c = 8192
            ELSE c * 1000 <= x /\ x < (c + 1) * 1000

\* 32 minutes give 8153 tokens (the product is 8153.6), under the cap
C20_Witness ==
    /\ tpc = "done"
    /\ budget_target_minutes = 32
    /\ dynamic_max_tokens_section = 8153

\* C21: every ceiling handed to the adapter by section generation (first call
\* and expansion) and by stitching lies between 1 and 8192, for every target
\* of at least one minute and every chunk length, and the expansion ceiling
\* of a section is never below the ceiling of its first call.
C21_CeilingsWithinModelLimit ==
    LET InRange(c) == 1 <= c /\ c <= MODEL_ABSOLUTE_MAX_OUTPUT_TOKENS
    IN  /\ tpc = "done" => InRange(dynamic_max_tokens_section)
        /\ expansion_max_tokens # 0 =>
               /\ InRange(expansion_max_tokens)
               /\ expansion_max_tokens >= dynamic_max_tokens_section
        /\ chunk_output_max_tokens # 0 => InRange(chunk_output_max_tokens)

\* a 40-minute section and a chunk of 31500 characters: all three ceilings
\* are computed and all three are cut to the model limit
C21_Witness ==
    /\ tpc = "done"
    /\ budget_target_minutes = 40
    /\ dynamic_max_tokens_section = MODEL_ABSOLUTE_MAX_OUTPUT_TOKENS
    /\ expansion_max_tokens = MODEL_ABSOLUTE_MAX_OUTPUT_TOKENS
    /\ chunk_len = 9 * ChunkLenStep
    /\ chunk_output_max_tokens = MODEL_ABSOLUTE_MAX_OUTPUT_TOKENS

----------------------------------------------------------------------------
(* Claims about the structuring stage (SpecStructure)                      *)

\* the answer holds one list and nothing else: the bare list, or a dict with
\* a single key whose value is the list
HoldsOneList(raw) ==
    \/ raw.type = "list"
    \/ /\ raw.type = "dict"
       /\ Len(raw.entries) = 1
       /\ raw.entries[1].value.type = "list"
TheList(raw) ==
    IF raw.type = "list" THEN raw.items ELSE raw.entries[1].value.items

\* how the call of the state ended
StructuringEnded == xpc \in {"returned", "raised"}
EndOfCall == [raised |-> xpc = "raised", sections |-> structuring_result]

\* C22: a non-empty list L is parsed to the same section list whether the
\* answer is the bare list, the dict {"sections": L} or a dict holding L
\* under a single key of any name, in the proposal and in the retooling.
C22_SameListUnderAnyKey ==
    (/\ StructuringEnded
     /\ HoldsOneList(raw_response_json)
     /\ Len(TheList(raw_response_json)) >= 1)
        => EndOfCall = ValidationOutcome(TheList(raw_response_json))

\* the retooling of an answer {"outline": [..]} returned a section
C22_Witness ==
    /\ xpc = "returned"
    /\ structuring_function = "retool"
    /\ raw_response_json.type = "dict"
    /\ Len(raw_response_json.entries) = 1
    /\ raw_response_json.entries[1].key = "outline"
    /\ Len(structuring_result) >= 1

\* the entries the claim calls valid: dicts with the three keys whose
\* estimated_minutes int() accepts
ValidEntry(item) ==
    /\ item.shape = "complete"
    /\ item.estimated_minutes.json = "number"
\* the list found in the answer of the state
FoundList ==
    LET found == ExtractSectionsList(raw_response_json)
    IN  IF found = <<>> THEN <<>> ELSE found[1]

\* C23: the call never fails; it returns the valid entries of the list in
\* their order with minutes of at least 1, every other entry (one with null
\* minutes too) is dropped, and None is returned only when no entry is valid.
C23_InvalidEntriesAreDropped ==
    /\ xpc # "raised"
    /\ xpc = "returned" =>
          LET valid == SelectSeq(FoundList, ValidEntry)
          IN  /\ Len(structuring_result) = Len(valid)
              /\ \A i \in 1..Len(valid) :
                    /\ structuring_result[i].title = valid[i].title
                    /\ structuring_result[i].estimated_minutes >= 1

----------------------------------------------------------------------------
(* Claims about the order of the stages and about halting (SpecMain)       *)

\* the place of a stage in the pipeline
StageRank(call) ==
    CASE call.stage = "research" -> 0
      [] call.stage = "structuring" -> 1
      [] call.stage = "section" -> 2
      [] call.stage = "smoothing" -> 3

\* C24: the adapter calls occur in stage order: research, then the
\* structuring calls, then the calls of each section in confirmed-list order
\* (all calls of one section before the first call of the next), then the
\* smoothing calls.
C24_CallsInStageOrder ==
    \A i \in 1..Len(adapter_call_log) : \A j \in 1..Len(adapter_call_log) :
        i < j =>
            LET first == adapter_call_log[i]
                later == adapter_call_log[j]
            IN  /\ StageRank(first) <= StageRank(later)
                /\ later.stage # "research"
                /\ (first.stage = "section" /\ later.stage = "section") =>
                       first.section < later.section

\* a run with a retooling, two sections and smoothing calls
C24_Witness ==
    /\ mpc = "done"
    /\ feedback_round >= 1
    /\ Len(confirmed_sections) >= 2
    /\ adapter_call_log[Len(adapter_call_log)] = SmoothingCalls

\* the files of the sections generated so far
SectionFilesWritten ==
    SelectSeq(saved_files,
              LAMBDA f : f \in {SectionFilename(t) : t \in Titles})
LastCall == adapter_call_log[Len(adapter_call_log)]
NoFinalScriptFile ==
    \A i \in 1..Len(saved_files) : saved_files[i] # "final_video_script.txt"

\* C25: once research, the initial proposal, the generation of a section or
\* stitching has yielded no result, the pipeline has halted; the last adapter
\* calls are those of the stage that failed (none at all for stitching), no
\* section file or final-script file was written from the failure on, and
\* the files of the sections completed before are written.
C25_NoResultHaltsThePipeline ==
    no_result_stage # "none" =>
        /\ mpc = "halted"
        /\ NoFinalScriptFile
        /\ Len(SectionFilesWritten) = sections_done
        /\ \A i \in 1..sections_done :
               SectionFilesWritten[i] =
                   SectionFilename(confirmed_sections[i].title)
        /\ no_result_stage = "research" =>
               /\ LastCall = ResearchCall
               /\ sections_done = 0
        /\ no_result_stage = "proposal" =>
               /\ LastCall = StructuringCall
               /\ feedback_round = 0
               /\ sections_done = 0
        /\ no_result_stage = "section" =>
               LastCall = SectionCalls(sections_done + 1)
        /\ no_result_stage = "stitching" =>
               /\ LastCall = SectionCalls(sections_done)
               /\ sections_done = Len(confirmed_sections)

\* the second section yields no script after the first was saved
C25_Witness ==
    /\ no_result_stage = "section"
    /\ sections_done = 1
    /\ mpc = "halted"

----------------------------------------------------------------------------
(* Claims about the length estimate (SpecEstimate)                         *)

\* the word tokens of a text: the places where a run of word characters
\* begins
WordTokens(s) ==
    Cardinality({i \in 1..Len(s) :
                    /\ s[i] \in WordChars
                    /\ (i = 1 \/ s[i - 1] \notin WordChars)})
BlankText(s) == \A i \in 1..Len(s) : s[i] \in Whitespace

\* C26: the estimate is the number of word tokens of the text divided by
\* 140 words per minute, it is 0 for an empty or blank text, and the call
\* sites of generation and stitching get the same value for the same text.
C26_EstimateIsWordsPerMinute ==
    LET Right(result) ==
            result # <<>> =>
                /\ result[1] * WORDS_PER_MINUTE_NARRATION =
                       WordTokens(estimated_text) * MinutesToTicks(1)
                /\ BlankText(estimated_text) => result[1] = 0
    IN  /\ Right(minutes_in_generation)
        /\ Right(minutes_in_stitching)
        /\ (minutes_in_generation # <<>> /\ minutes_in_stitching # <<>>) =>
               minutes_in_generation = minutes_in_stitching

\* "a.1": two word tokens in one run of non-blank characters, 2/140 minute
\* at both call sites
C26_Witness ==
    /\ estimated_text = <<"a", ".", "1">>
    /\ minutes_in_generation = <<2 * TicksPerWord>>
    /\ minutes_in_stitching = <<2 * TicksPerWord>>

----------------------------------------------------------------------------
(* Further claims about the expansion loop (SpecGen)                       *)

\* a step of the loop that issues an expansion call
ExpansionCallStep == pc = "loop" /\ adapter_calls' = adapter_calls + 1

\* the three conditions of the claim, on the target (minutes), the current
\* estimate (ticks) and the attempts made
ShortByMoreThanHalfBand(t, cur) == 100 * (MinutesToTicks(t) - cur) >
                                       75 * MinutesToTicks(1)
BelowTenPercentOver(t, cur) == 100 * cur < 110 * MinutesToTicks(t)
AttemptsRemain(attempts) == attempts < 6

\* C27: an expansion call is issued only from a state where the target
\* exceeds the current estimate by more than 0.75 minutes, the estimate is
\* below 1.10 times the target and fewer than 6 attempts have been made.
C27_ExpansionOnlyUnderGuard ==
    [][ExpansionCallStep =>
           /\ ShortByMoreThanHalfBand(section_target_minutes,
                                      current_length_minutes)
           /\ BelowTenPercentOver(section_target_minutes,
                                  current_length_minutes)
           /\ AttemptsRemain(expansion_attempts)]_vars

\* the sixth expansion call has been issued
C27_Witness == adapter_calls = 7 /\ expansion_attempts = 6

AcceptedTruncated ==
    expansion_gain = "longer" /\ expansion_finish_reason = "MAX_TOKENS"
ReachedNinetyPercent(t, cur) == 100 * cur >= 90 * MinutesToTicks(t)

----------------------------------------------------------------------------
(* A further claim about the end of the smoothing loop (SpecStitch)        *)

\* the smoothing calls that succeeded, by their place among the calls
SmoothedCalls == {i \in 1..Len(smoothing_log) : smoothing_log[i] = "ok"}
\* the characters of the raw script those calls were sent
RECURSIVE ProcessedChars(_)
ProcessedChars(i) ==
    IF i = 0 THEN 0
    ELSE ProcessedChars(i - 1)
         + (IF i \in SmoothedCalls THEN Len(chunks_sent[i]) ELSE 0)
\* the raw script from the first character no successful call was sent
UnprocessedRemainder ==
    SliceFrom(full_concatenated_script, ProcessedChars(Len(smoothing_log)))

\* the loop has ended with text unprocessed: the last call failed, or five
\* calls succeeded and text is left
LoopEndedWithTextLeft ==
    /\ spc = "done"
    /\ smoothing_log # <<>>
    /\ \/ smoothing_log[Len(smoothing_log)] = "failed"
       \/ /\ Len(smoothing_log) = max_smoothing_iterations
          /\ UnprocessedRemainder # <<>>

EndsWith(s, suffix) ==
    /\ Len(suffix) <= Len(s)
    /\ SubSeq(s, Len(s) - Len(suffix) + 1, Len(s)) = suffix

\* the parts are the smoothed chunks in call order, then the remainder
PartsAreSmoothedThenRemainder ==
    /\ Len(final_script_parts) = Cardinality(SmoothedCalls) + 1
    /\ final_script_parts[Len(final_script_parts)] = UnprocessedRemainder
    /\ Len(chunks_sent) = smoothing_iterations
    /\ Len(smoothing_log) = smoothing_iterations

\* C30 as claimed: when the loop ends with text unprocessed, the whole
\* remainder (the failed chunk included) is the last part, after the smoothed
\* chunks, and the result ends with it verbatim; no further call is issued.
C30_Original ==
    LoopEndedWithTextLeft =>
        /\ PartsAreSmoothedThenRemainder
        /\ EndsWith(stitch_result, UnprocessedRemainder)

\* some smoothed chunk holds a character that is not whitespace
SomeSmoothedChunkNotBlank ==
    \E i \in 1..(Len(final_script_parts) - 1) :
        strip(final_script_parts[i]) # <<>>

\* C30 amended: when the loop ends with text unprocessed, the whole
\* remainder (the failed chunk included) is the last part, after the smoothed
\* chunks in their order, and no further call is issued; the result, the
\* trimmed join of the parts, ends with the remainder less its leading
\* whitespace, and with the remainder verbatim whenever a smoothed chunk
\* before it is not blank or the remainder does not begin with whitespace.
C30_RemainderIsLastPart ==
    LoopEndedWithTextLeft =>
        /\ PartsAreSmoothedThenRemainder
        /\ EndsWith(stitch_result, strip(UnprocessedRemainder))
        /\ (\/ SomeSmoothedChunkNotBlank
            \/ UnprocessedRemainder[1] \notin Whitespace) =>
               EndsWith(stitch_result, UnprocessedRemainder)

\* a call failed after a smoothed chunk that is not blank, with more than
\* the failed chunk left: the result ends with all of it
C30_Witness ==
    /\ LoopEndedWithTextLeft
    /\ smoothing_log[Len(smoothing_log)] = "failed"
    /\ SomeSmoothedChunkNotBlank
    /\ Len(UnprocessedRemainder) > SMOOTHING_PROMPT_INPUT_CHAR_LIMIT
    /\ EndsWith(stitch_result, UnprocessedRemainder)

----------------------------------------------------------------------------
(* Claims about the smoothing ceiling (SpecBudget)                         *)

\* C31: the output-token ceiling of a smoothing call is at least the
\* approximate input token count of its chunk, floor(chunk_chars / 3.5), so
\* an output as long as the input fits under the ceiling.
C31_CeilingCoversInput ==
    chunk_output_max_tokens # 0 =>
        chunk_output_max_tokens >= chunk_input_tokens_approx(chunk_len)

----------------------------------------------------------------------------
(* Claims about the result of stitching (SpecStitch)                       *)

\* "\n\n".join(final_script_parts).strip() of the finished call
JoinedParts == strip(JoinBlankLine(final_script_parts))

\* C32: whenever the raw concatenated script is non-empty, the stage returns
\* a text with a non-blank character, whatever the smoothing calls answered:
\* the trimmed join of the parts, or, if that is empty, the raw concatenated
\* script itself.
C32_RawScriptWhenJoinIsBlank ==
    (spc = "done" /\ StrTruthy(full_concatenated_script)) =>
        /\ StrTruthy(stitch_result)
        /\ StrTruthy(strip(stitch_result))
        /\ stitch_result = IF JoinedParts = <<>>
                           THEN full_concatenated_script
                           ELSE JoinedParts

\* C32 witness: one smoothing call took the whole raw script and answered
\* with a blank; the raw script is returned
C32_Witness ==
    /\ spc = "done"
    /\ StrTruthy(full_concatenated_script)
    /\ smoothing_log = <<"ok">>
    /\ final_script_parts = << <<" ">> >>
    /\ JoinedParts = <<>>
    /\ stitch_result = full_concatenated_script

----------------------------------------------------------------------------
(* Claims about the search for the section list (SpecStructure)            *)

\* the keys looked up by name, in the order of the lookups
PreferredKeys == <<"sections", "data", "items">>

\* the list values of a dict answer under a key of the given set
ListsUnderKeys(raw, keys) ==
    {raw.entries[i].value.items :
        i \in {j \in 1..Len(raw.entries) :
                  /\ raw.entries[j].key \in keys
                  /\ raw.entries[j].value.type = "list"}}

\* the first of the three keys that holds a list, 0 when none does
FirstPreferredKey(raw) ==
    LET holding == {n \in 1..Len(PreferredKeys) :
                       ListsUnderKeys(raw, {PreferredKeys[n]}) # {}}
    IN  IF holding = {} THEN 0
        ELSE CHOOSE n \in holding : \A m \in holding : n <= m

\* the lists the rule of the claim allows the stage to use
AllowedLists(raw) ==
    IF raw.type = "list" THEN {raw.items}
    ELSE IF raw.type # "dict" THEN {}
    ELSE IF FirstPreferredKey(raw) # 0
         THEN ListsUnderKeys(raw, {PreferredKeys[FirstPreferredKey(raw)]})
         ELSE ListsUnderKeys(raw, DictKeys)

\* how the call ends once it uses the given list
OutcomeOfList(list) ==
    IF Len(list) = 0 THEN ReturnsSections(NoSections)
    ELSE ValidationOutcome(list)

\* C33: from a dict answer the list is taken from the first of the keys
\* sections, data, items whose value is a list, and from another key only
\* when none of the three holds a list; an answer that is neither a list nor
\* a dict holding a list makes the call return None.
C33_KnownKeysBeforeOtherKeys ==
    StructuringEnded =>
        IF AllowedLists(raw_response_json) = {}
        THEN EndOfCall = ReturnsSections(NoSections)
        ELSE EndOfCall \in
                 {OutcomeOfList(list) : list \in AllowedLists(raw_response_json)}

\* C33 witness: the answer {"outline": [..], "items": [..]} holds two lists
\* that validate differently, and the sections of the list under "items"
\* are returned
C33_Witness ==
    /\ xpc = "returned"
    /\ raw_response_json.type = "dict"
    /\ Len(raw_response_json.entries) = 2
    /\ raw_response_json.entries[1].key = "outline"
    /\ raw_response_json.entries[1].value.type = "list"
    /\ raw_response_json.entries[2].key = "items"
    /\ raw_response_json.entries[2].value.type = "list"
    /\ Len(structuring_result) >= 1
    /\ structuring_result =
           valid_sections(raw_response_json.entries[2].value.items)
    /\ structuring_result #
           valid_sections(raw_response_json.entries[1].value.items)

----------------------------------------------------------------------------
(* Claims about the sleeps of an exhausted call (SpecAdapter)              *)

\* the seconds slept in the call so far
RECURSIVE TotalSlept(_)
TotalSlept(delays) ==
    IF delays = <<>> THEN 0 ELSE Head(delays) + TotalSlept(Tail(delays))

\* the call gave up after its last retry
RetriesExhausted ==
    apc = "returned" /\ api_result.finish_reason = "MAX_RETRIES_REACHED"

\* C34: a call that exhausts its retries has slept after every failed
\* request, the last one included: max_retries sleeps for max_retries
\* requests, initial_delay * (2^max_retries - 1) seconds in all, and after
\* the last sleep the loop test fails, so no request follows it.
C34_SleepsAfterEveryFailedAttempt ==
    /\ RetriesExhausted =>
          /\ Len(request_log) = max_retries
          /\ Len(sleeps) = max_retries
          /\ TotalSlept(sleeps) = initial_delay * ((2 ^ max_retries) - 1)
    /\ Len(sleeps) = current_retries
    /\ Len(sleeps) <= Len(request_log)
    /\ Len(sleeps) = max_retries => ~RetryGuard(current_retries)

\* C34 witness: three requests, three sleeps of 5, 10 and 20 seconds, and
\* the call has returned without a fourth request
C34_Witness ==
    /\ RetriesExhausted
    /\ Len(request_log) = 3
    /\ sleeps = <<5, 10, 20>>
    /\ TotalSlept(sleeps) = 35

----------------------------------------------------------------------------
(* Claims about the conditions of the expansion loop (SpecGen)             *)

\* C35: in every reachable state where the target exceeds the current
\* estimate by more than 0.75 minutes, the estimate is below 1.10 times the
\* target; so when the while test fails, the section is no longer short by
\* more than 0.75 minutes or the attempts are used up: the overshoot
\* condition alone never stops the loop.
C35_ShortfallImpliesBelowOvershoot ==
    /\ ShortByMoreThanHalfBand(section_target_minutes, current_length_minutes)
           => BelowTenPercentOver(section_target_minutes,
                                  current_length_minutes)
    /\ (/\ pc = "loop"
        /\ ~LoopGuard(section_target_minutes, current_length_minutes,
                      expansion_attempts))
           => \/ ~ShortByMoreThanHalfBand(section_target_minutes,
                                          current_length_minutes)
              \/ ~AttemptsRemain(expansion_attempts)

\* C35 witness: at the while test after an accepted expansion, the section
\* is at 90% of its target or more and still more than 0.75 minutes short;
\* the loop goes on
C35_Witness ==
    /\ pc = "loop"
    /\ expansion_attempts = 1
    /\ ReachedNinetyPercent(section_target_minutes, current_length_minutes)
    /\ ShortByMoreThanHalfBand(section_target_minutes, current_length_minutes)
    /\ LoopGuard(section_target_minutes, current_length_minutes,
                 expansion_attempts)

\* a step that enters the body of the while loop
LoopBodyEntered == pc = "loop" /\ expansion_attempts' = expansion_attempts + 1

\* C36: whenever the body of the expansion loop is entered, more than 105
\* words are still needed, which is never below the threshold of 70 words:
\* the "remaining words too small" stop is never taken and every entry into
\* the body issues an expansion call.
C36_EveryLoopEntryCallsTheAdapter ==
    [][LoopBodyEntered =>
           /\ additional_words_needed(section_target_minutes,
                                      current_length_minutes) > 105
           /\ ~TooSmallToExpand(section_target_minutes,
                                current_length_minutes, expansion_attempts')
           /\ expansion_outcome' # "too_small"
           /\ adapter_calls' = adapter_calls + 1]_vars

\* C36 witness: the body was entered twice, each time with an expansion
\* call, and the while test holds again with fewer than 140 words needed
C36_Witness ==
    /\ pc = "loop"
    /\ expansion_attempts = 2
    /\ adapter_calls = 3
    /\ LoopGuard(section_target_minutes, current_length_minutes,
                 expansion_attempts)
    /\ additional_words_needed(section_target_minutes,
                               current_length_minutes) < 140

----------------------------------------------------------------------------
(* Claims about the feedback loop (SpecMain)                               *)

\* the structuring calls made after the proposal: the retool calls
RetoolCalls ==
    Cardinality({i \in 2..Len(adapter_call_log) :
                    adapter_call_log[i].stage = "structuring"})

\* the initial proposal succeeded and the feedback loop is over
FeedbackLoopOver ==
    /\ proposed_sections_list # NoSections
    /\ mpc \notin {"research", "structuring", "feedback"}

\* C37: once the initial proposal succeeded, the user is asked at most 9
\* times, at most 8 retool calls are issued, and the feedback loop always
\* ends with a non-empty section list selected, by confirmation or by lapse
\* at the 9th feedback that does not confirm.
C37_FeedbackLoopSelectsAList ==
    /\ feedback_round <= 8
    /\ RetoolCalls <= 8
    /\ FeedbackLoopOver =>
          /\ confirmed_sections # NoSections
          /\ \E i \in 1..Len(saved_files) :
                saved_files[i] \in {"confirmed_sections.json",
                                    "confirmed_sections_lapsed.json"}

\* a pass of the feedback loop that made a retool call
RetoolStep == mpc = "feedback" /\ feedback_round' = feedback_round + 1

\* a pass of the feedback loop that selected the list, by confirmation or
\* by lapse
SelectionStep == mpc = "feedback" /\ mpc' = "generating"

\* C38: a retool call that returns no valid section list leaves the current
\* proposal as it was, so the list shown in the next round is the last list
\* that was proposed or retooled with success, and the list confirmed or
\* lapsed afterwards is that current proposal.
C38_FailedRetoolKeepsTheProposal ==
    [][/\ (RetoolStep /\ retool_outcome' = "no_sections") =>
              /\ proposed_sections_list' = proposed_sections_list
              /\ proposed_sections_list' # NoSections
              /\ mpc' = "feedback"
       /\ SelectionStep =>
              /\ confirmed_sections' = proposed_sections_list
              /\ proposed_sections_list' = proposed_sections_list]_vars

\* C38 witness: the eighth retool call returned no list and the ninth
\* feedback lapsed: the proposal kept is the list selected
C38_Witness ==
    /\ mpc = "generating"
    /\ retool_outcome = "no_sections"
    /\ feedback_round = 8
    /\ confirmed_sections = proposed_sections_list
    /\ confirmed_sections # NoSections
    /\ saved_files[Len(saved_files)] = "confirmed_sections_lapsed.json"

----------------------------------------------------------------------------
(* Claims about tts_manager.py (SpecSpeech, SpecSplit) *)

\* C39: when convert_text_to_speech returns the output path, the audio
\* segments written to the output file are in the order of the text chunks
\* they were synthesized from: the chunk numbers in output_segments increase.
C39_SegmentsInChunkOrder ==
    speech_result = "path" =>
        \A i, j \in 1..Len(output_segments) :
            i < j => output_segments[i] < output_segments[j]

\* The words of a sequence of texts, in order.
RECURSIVE WordsOf(_)
WordsOf(texts) ==
    IF texts = <<>> THEN <<>>
    ELSE str_split(Head(texts)) \o WordsOf(Tail(texts))

\* C40: the chunks returned by _split_text_to_chunks, read in order, hold
\* the sentences of the input in their original order with none omitted:
\* the words of the chunks are the words of the text, in the same order.
C40_ChunksKeepSentenceOrder ==
    kpc = "returned" => WordsOf(split_chunks) = str_split(split_text)

====
